---- MODULE Spec2Model ----
(***************************************************************************)
(* A model of the hash-linked ledger (HSM.py and engine.py, class          *)
(* BlockchainNWIEngine), of the HSM-targeted proof-of-work search (CME.py, *)
(* class HSMEnhancedMiner) and of the proxy miner's range search           *)
(* (proxy.py, HSMProxyUtilizationMiner.mine_with_range).                   *)
(*                                                                         *)
(* Strings are Python strings.  A SHA-256 hex digest is modelled as a      *)
(* string too: HexDigits leading digits of radix Radix, computed from      *)
(* every character of the preimage, followed by the preimage itself, so    *)
(* that the digest is a function of the preimage alone, is collision-free, *)
(* and has a leading-zero run that varies with the nonce.                  *)
(***************************************************************************)
EXTENDS Integers, Sequences, FiniteSets, TLC

\* ------------------------------------------------------------------ bounds
MaxChain == 3
MaxPending == 2
MaxNonce == 6
MaxReports == 2
MaxToken == 1
MaxTime == 2
MaxRange == 3
HashesPerTick == 3
MaxMined == 1
MaxBuilt == 2
MaxTxs == 4
MaxCalls == 4
MaxTargets == 2
MaxCycles == 3
MaxBatch == 2
MaxAppends == 3
MaxUpdates == 3
HexDigits == 3
Radix == 4

Writers == {1, 2}
Difficulties == {1, 2}

\* ------------------------------------------------------- Python strings
Min(a, b) == IF a < b THEN a ELSE b
Max(a, b) == IF a > b THEN a ELSE b

RECURSIVE Pow(_, _)
Pow(b, e) == IF e <= 0 THEN 1 ELSE b * Pow(b, e - 1)

\* "0" * n : the empty string when n <= 0
RECURSIVE Zeros(_)
Zeros(n) == IF n <= 0 THEN "" ELSE "0" \o Zeros(n - 1)

\* s[:n] : the first n characters, or all but the last -n when n < 0
Slice(s, n) ==
    IF n >= 0 THEN SubSeq(s, 1, Min(n, Len(s)))
    ELSE SubSeq(s, 1, Max(Len(s) + n, 0))

\* s.startswith(p)
StartsWith(s, p) == Len(p) <= Len(s) /\ SubSeq(s, 1, Len(p)) = p

\* ------------------------------------------------------------- SHA-256
\* What is hashed: the text, and the checksum of the numbers written in it.
\* The checksum is carried beside the text because it is what the leading
\* digits of the digest are computed from.
RECURSIVE WeightedSum(_, _)
WeightedSum(numbers, i) ==
    IF i > Len(numbers) THEN 0
    ELSE numbers[i] * (i + 1) + WeightedSum(numbers, i + 1)

Preimage(text, numbers) == [text |-> text, sum |-> Len(text) + WeightedSum(numbers, 1)]

CharVal(c) ==
    CASE c = "0" -> 0 [] c = "1" -> 1 [] c = "2" -> 2 [] c = "3" -> 3
      [] c = "4" -> 4 [] c = "5" -> 5 [] c = "6" -> 6 [] c = "7" -> 7
      [] c = "8" -> 8 [] c = "9" -> 9 [] OTHER -> 11

\* the number a digest contributes to a checksum: its leading digits
RECURSIVE Lead(_, _)
Lead(h, k) ==
    IF k <= 0 \/ Len(h) < k THEN 0
    ELSE Lead(h, k - 1) * Radix + CharVal(SubSeq(h, k, k))

\* v written with k digits of radix Radix, most significant first
RECURSIVE DigitString(_, _)
DigitString(v, k) ==
    IF k <= 0 THEN ""
    ELSE DigitString(v \div Radix, k - 1) \o ToString(v % Radix)

\* hashlib.sha256(s.encode()).hexdigest()
sha256(p) == DigitString(p.sum % Pow(Radix, HexDigits), HexDigits) \o "|" \o p.text

\* ---------------------------------------------------------------- JSON
\* json.dumps of a list whose items are already serialized, joined by sep
RECURSIVE JoinItems(_, _)
JoinItems(items, sep) ==
    IF items = <<>> THEN ""
    ELSE IF Len(items) = 1 THEN items[1]
    ELSE items[1] \o sep \o JoinItems(Tail(items), sep)

\* json.dumps(transaction, sort_keys=True) with the separators sep and colon;
\* the quote characters are left out
json_dumps_tx(tx, sep, colon) ==
    IF tx.type = "mining_reward"
    THEN Preimage("{block_hash" \o colon \o tx.block_hash \o sep
                      \o "reward_amount" \o colon \o ToString(tx.reward_amount) \o sep
                      \o "timestamp" \o colon \o ToString(tx.timestamp) \o sep
                      \o "transactions_mined" \o colon \o ToString(tx.transactions_mined)
                      \o sep
                      \o "tx_id" \o colon \o tx.tx_id \o sep
                      \o "type" \o colon \o tx.type \o "}",
                  <<Lead(tx.block_hash, HexDigits), tx.reward_amount \div 1000,
                    tx.timestamp, tx.transactions_mined>>)
    ELSE
    Preimage("{report_data" \o colon \o "{id" \o colon \o tx.report_data.id \o sep
                 \o "ratio" \o colon \o ToString(tx.report_data.ratio) \o "}" \o sep
                 \o "timestamp" \o colon \o ToString(tx.timestamp) \o sep
                 \o "tx_id" \o colon \o tx.tx_id \o sep
                 \o "type" \o colon \o tx.type \o "}",
             <<tx.report_data.ratio, tx.timestamp>>)

json_dumps_txs(txs, sep, colon) ==
    LET items == [i \in 1..Len(txs) |-> json_dumps_tx(txs[i], sep, colon)]
    IN  Preimage("[" \o JoinItems([i \in 1..Len(txs) |-> items[i].text], sep) \o "]",
                 [i \in 1..Len(txs) |-> items[i].sum])

\* ------------------------------------------- HSM.py BlockchainNWIEngine
\* _hash_transaction
_hash_transaction(tx) == sha256(json_dumps_tx(tx, ",", ":"))

\* (variant: the two hashes of a pair put in order before they are joined)
CombinedInOrder(h1, h2) ==
    IF Lead(h1, HexDigits) <= Lead(h2, HexDigits)
    THEN Preimage(h1 \o h2, <<Lead(h1, HexDigits), Lead(h2, HexDigits)>>)
    ELSE Preimage(h2 \o h1, <<Lead(h2, HexDigits), Lead(h1, HexDigits)>>)
\* combined = transaction_hashes[i] + transaction_hashes[j]
Combined(h1, h2) == Preimage(h1 \o h2, <<Lead(h1, HexDigits), Lead(h2, HexDigits)>>)

\* one level of the merkle loop: adjacent pairs, the last one paired with itself
RECURSIVE MerkleLevel(_)
\* (variant: the last hash of an odd level carried up as it is)
MerkleLevel_last_carried(hs) ==
    [i \in 1..((Len(hs) + 1) \div 2) |->
        IF 2 * i <= Len(hs) THEN sha256(Combined(hs[2 * i - 1], hs[2 * i]))
        ELSE hs[2 * i - 1]]
MerkleLevel(hs) ==
    IF hs = <<>> THEN <<>>
    ELSE IF Len(hs) = 1 THEN <<sha256(Combined(hs[1], hs[1]))>>
    ELSE <<sha256(Combined(hs[1], hs[2]))>> \o MerkleLevel(SubSeq(hs, 3, Len(hs)))

RECURSIVE MerkleReduce(_)
MerkleReduce(hs) == IF Len(hs) > 1 THEN MerkleReduce(MerkleLevel(hs)) ELSE hs[1]

\* (variant: the pairing loop entered once even for a single hash)
_calculate_merkle_root_loop_first(txs) ==
    IF txs = <<>> THEN Zeros(64)
    ELSE MerkleReduce(MerkleLevel([i \in 1..Len(txs) |-> _hash_transaction(txs[i])]))
\* _calculate_merkle_root
_calculate_merkle_root(txs) ==
    IF txs = <<>> THEN Zeros(64)
    ELSE MerkleReduce([i \in 1..Len(txs) |-> _hash_transaction(txs[i])])

\* json.dumps(block_copy, sort_keys=True, separators=(',', ':'))
json_dumps_block(b) ==
    LET txs == json_dumps_txs(b.transactions, ",", ":")
    IN  Preimage("{block_hash:" \o b.block_hash
                     \o ",index:" \o ToString(b.index)
                     \o ",merkle_root:" \o b.merkle_root
                     \o (IF "mining_data" \in DOMAIN b
                         THEN ",mining_data:{difficulty:"
                                  \o ToString(b.mining_data.difficulty)
                                  \o ",total_rewards:"
                                  \o ToString(b.mining_data.total_rewards) \o "}"
                         ELSE "")
                     \o ",network:" \o b.network
                     \o ",nonce:" \o ToString(b.nonce)
                     \o ",previous_hash:" \o b.previous_hash
                     \o ",timestamp:" \o ToString(b.timestamp)
                     \o ",transactions:" \o txs.text
                     \o ",version:" \o b.version \o "}",
                 <<Lead(b.block_hash, HexDigits), b.index, Lead(b.merkle_root, HexDigits),
                   b.nonce, Lead(b.previous_hash, HexDigits), b.timestamp, txs.sum>>)

\* (variant: only the index and the linkage are hashed)
_calculate_block_hash_of_linkage(block) ==
    sha256(Preimage("{index:" \o ToString(block.index)
                        \o ",previous_hash:" \o block.previous_hash \o "}",
                    <<block.index, Lead(block.previous_hash, HexDigits)>>))
\* _calculate_block_hash: the hash of the block with block_hash blanked
_calculate_block_hash(block) ==
    sha256(json_dumps_block([block EXCEPT !.block_hash = ""]))

\* _get_chain_length: the number of lines of the chain file
_get_chain_length(file) == Len(file)

\* _get_last_block: the last line of the chain file, None when there is none
NoBlock == [index |-> -1]
\* (variant: lines[0] read where lines[-1] is meant)
_get_last_block_first_line(file) == IF file = <<>> THEN NoBlock ELSE file[1]
_get_last_block(file) == IF file = <<>> THEN NoBlock ELSE file[Len(file)]

\* (variant: block_hash computed before merkle_root is filled in)
_create_block_hash_before_merkle(file, previous_hash, transactions, nonce, ts) ==
    LET block == [index |-> _get_chain_length(file),
                  timestamp |-> ts,
                  transactions |-> transactions,
                  previous_hash |-> previous_hash,
                  nonce |-> nonce,
                  merkle_root |-> "",
                  block_hash |-> "",
                  network |-> "mainnet",
                  version |-> "1.0"]
    IN  [block EXCEPT !.block_hash = _calculate_block_hash(block),
                      !.merkle_root = _calculate_merkle_root(transactions)]
\* _create_block
_create_block(file, previous_hash, transactions, nonce, ts) ==
    LET block == [index |-> _get_chain_length(file),
                  timestamp |-> ts,
                  transactions |-> transactions,
                  previous_hash |-> previous_hash,
                  nonce |-> nonce,
                  merkle_root |-> _calculate_merkle_root(transactions),
                  block_hash |-> "",
                  network |-> "mainnet",
                  version |-> "1.0"]
    IN  [block EXCEPT !.block_hash = _calculate_block_hash(block)]

\* (variant: the chain file opened with 'w' where 'a' is meant)
_add_block_truncating(file, block) == <<block>>
\* _add_block: one more line at the end of the chain file
_add_block(file, block) == Append(file, block)

\* (variant: the genesis block written without looking for the chain file)
_initialize_chain_unconditional(exists, file, ts) ==
    _add_block(file, _create_block(file, Zeros(64), <<>>, 0, ts))
\* _initialize_chain: the genesis block is written when there is no chain file
\* (exists: os.path.exists(self.chain_file); file: the lines of the file)
_initialize_chain(exists, file, ts) ==
    IF ~exists
    THEN _add_block(file, _create_block(file, Zeros(64), <<>>, 0, ts))
    ELSE file

\* create_nwi_transaction
create_nwi_transaction(id, ratio, ts) ==
    [tx_id |-> "NWI-TX-" \o ToString(ts) \o "-" \o id,
     type |-> "nwi_report",
     timestamp |-> ts,
     report_data |-> [id |-> id, ratio |-> ratio]]

\* the test of mine_block: block["block_hash"][:difficulty] == "0" * difficulty
MeetsDifficulty(hash, difficulty) == Slice(hash, difficulty) = Zeros(difficulty)

\* (variant: only the linkage is checked, the stored hashes are trusted)
_verify_block_linkage_only(block, previous_block) ==
    IF previous_block # NoBlock /\ block.previous_hash # previous_block.block_hash
    THEN FALSE
    ELSE TRUE
\* _verify_block
_verify_block(block, previous_block) ==
    IF _calculate_block_hash(block) # block.block_hash THEN FALSE
    ELSE IF previous_block # NoBlock /\ block.previous_hash # previous_block.block_hash
         THEN FALSE
    ELSE IF _calculate_merkle_root(block.transactions) # block.merkle_root THEN FALSE
    ELSE TRUE

\* the loop of verify_chain_integrity over blocks[1..n]
RECURSIVE VerifyLoop(_, _)
VerifyLoop(blocks, n) ==
    IF n = 0
    THEN [total_blocks |-> Len(blocks), valid_blocks |-> 0, invalid_blocks |-> 0,
          tamper_detected |-> FALSE, details |-> <<>>]
    ELSE LET r == VerifyLoop(blocks, n - 1)
             block_valid == _verify_block(blocks[n],
                                IF n > 1 THEN blocks[n - 1] ELSE NoBlock)
         IN  [total_blocks |-> r.total_blocks,
              valid_blocks |-> r.valid_blocks + (IF block_valid THEN 1 ELSE 0),
              invalid_blocks |-> r.invalid_blocks + (IF block_valid THEN 0 ELSE 1),
              tamper_detected |-> r.tamper_detected \/ ~block_valid,
              details |-> Append(r.details,
                              [block_index |-> blocks[n].index,
                               valid |-> block_valid,
                               block_hash |-> blocks[n].block_hash])]

\* (variant: the loop left at the first invalid block)
RECURSIVE VerifyLoopBreak(_, _)
VerifyLoopBreak(blocks, n) ==
    IF n = 0 THEN VerifyLoop(blocks, 0)
    ELSE LET r == VerifyLoopBreak(blocks, n - 1)
         IN  IF r.tamper_detected THEN r
             ELSE LET block_valid == _verify_block(blocks[n],
                                         IF n > 1 THEN blocks[n - 1] ELSE NoBlock)
                  IN  [total_blocks |-> r.total_blocks,
                       valid_blocks |-> r.valid_blocks + (IF block_valid THEN 1 ELSE 0),
                       invalid_blocks |-> r.invalid_blocks + (IF block_valid THEN 0 ELSE 1),
                       tamper_detected |-> ~block_valid,
                       details |-> Append(r.details,
                                       [block_index |-> blocks[n].index,
                                        valid |-> block_valid,
                                        block_hash |-> blocks[n].block_hash])]
verify_chain_integrity_first_failure(file) == VerifyLoopBreak(file, Len(file))
\* verify_chain_integrity
verify_chain_integrity(file) == VerifyLoop(file, Len(file))

\* ---------------------------------------- engine.py BlockchainNWIEngine
\* json.dumps(block, sort_keys=True): the block as it is, with its block_hash
\* key when it has one
engine_json_dumps_block(b) ==
    LET txs == json_dumps_txs(b.transactions, ", ", ": ")
        has_hash == "block_hash" \in DOMAIN b
    IN  Preimage("{" \o (IF has_hash THEN "block_hash: " \o b.block_hash \o ", " ELSE "")
                     \o "index: " \o ToString(b.index)
                     \o ", nonce: " \o ToString(b.nonce)
                     \o ", previous_hash: " \o b.previous_hash
                     \o ", timestamp: " \o ToString(b.timestamp)
                     \o ", transactions: " \o txs.text \o "}",
                 <<IF has_hash THEN Lead(b.block_hash, HexDigits) ELSE 0, b.index,
                   b.nonce, Lead(b.previous_hash, HexDigits), b.timestamp, txs.sum>>)

engine_calculate_block_hash(block) == sha256(engine_json_dumps_block(block))

\* create_genesis_block
engine_create_genesis_block(ts) ==
    [index |-> 0, timestamp |-> ts, transactions |-> <<>>,
     previous_hash |-> Zeros(64), nonce |-> 0, block_hash |-> "GENESIS"]

engine_create_block(chain_, previous_hash, transactions, nonce, ts) ==
    LET block == [index |-> Len(chain_),
                  timestamp |-> ts,
                  transactions |-> transactions,
                  previous_hash |-> previous_hash,
                  nonce |-> nonce]
    IN  [index |-> block.index, timestamp |-> block.timestamp,
         transactions |-> block.transactions,
         previous_hash |-> block.previous_hash, nonce |-> block.nonce,
         block_hash |-> engine_calculate_block_hash(block)]

\* ------------------------------------------- HSM.py TrajectoryMechanic
\* Scores are fixed-point numbers in units of 1e-4, the precision that
\* round(..., 4) leaves: Unit stands for 1.0.
Unit == 10000

\* Python values handed to the engines: floats (the finite ones in units of
\* 1e-4), strings and None
PyFloat(x) == [type |-> "float", value |-> x]
PyNaN == [type |-> "nan"]
PyInf(sign) == [type |-> "inf", sign |-> sign]
PyStr(text) == [type |-> "str", text |-> text]
PyNone == [type |-> "NoneType"]

\* what a call comes to: an exception, or a value returned
Raised(exc) == [raised |-> exc]
Returned(value) == [raised |-> "", value |-> value]

\* the digits of a decimal literal
DecimalDigit(c) ==
    CASE c = "0" -> 0 [] c = "1" -> 1 [] c = "2" -> 2 [] c = "3" -> 3 [] c = "4" -> 4
      [] c = "5" -> 5 [] c = "6" -> 6 [] c = "7" -> 7 [] c = "8" -> 8 [] c = "9" -> 9
      [] OTHER -> -1
IsDigits(text) ==
    Len(text) > 0 /\ \A k \in 1..Len(text) : DecimalDigit(SubSeq(text, k, k)) >= 0
RECURSIVE DigitsValue(_)
DigitsValue(text) ==
    IF Len(text) = 0 THEN 0
    ELSE 10 * DigitsValue(SubSeq(text, 1, Len(text) - 1))
             + DecimalDigit(SubSeq(text, Len(text), Len(text)))

\* float(text) of a string: "nan", "inf", "-inf", or digits "." digits (as
\* many decimals as a unit of 1e-4 holds); anything else is a ValueError
float_of_str(text) ==
    IF text = "nan" THEN Returned(PyNaN)
    ELSE IF text = "inf" THEN Returned(PyInf(1))
    ELSE IF text = "-inf" THEN Returned(PyInf(-1))
    ELSE LET dots == {k \in 1..Len(text) : SubSeq(text, k, k) = "."}
         IN  IF Cardinality(dots) # 1 THEN Raised("ValueError")
             ELSE LET dot == CHOOSE k \in dots : TRUE
                      whole == SubSeq(text, 1, dot - 1)
                      decimals == SubSeq(text, dot + 1, Len(text))
                  IN  IF IsDigits(whole) /\ IsDigits(decimals)
                             /\ Pow(10, Len(decimals)) <= Unit
                      THEN Returned(PyFloat(DigitsValue(whole) * Unit
                               + DigitsValue(decimals) * (Unit \div Pow(10, Len(decimals)))))
                      ELSE Raised("ValueError")

\* float(v)
float(v) ==
    CASE v.type \in {"float", "nan", "inf"} -> Returned(v)
      [] v.type = "str" -> float_of_str(v.text)
      [] OTHER -> Raised("TypeError")

\* math.isfinite
isfinite(v) == v.type = "float"

\* TrajectoryMechanic._clamp
_clamp(v) ==
    LET f == float(v)
    IN  IF f.raised # "" THEN 0
        ELSE IF ~isfinite(f.value) THEN 0
        ELSE Max(0, Min(Unit, f.value.value))

\* round(a / b): the nearest integer, a tie going to the even one
RoundDiv(a, b) ==
    LET q == a \div b
        r == a % b
    IN  IF 2 * r < b THEN q
        ELSE IF 2 * r > b THEN q + 1
        ELSE IF q % 2 = 0 THEN q ELSE q + 1

\* (variant: a ratio on a threshold counted to the phase below it)
_phase_name_threshold_below(ratio) ==
    IF 4 * ratio <= Unit THEN "Initiation (Courage)"
    ELSE IF 2 * ratio <= Unit THEN "Adaptation (Dexterity)"
    ELSE IF 4 * ratio <= 3 * Unit THEN "Verification (Clause Matter)"
    ELSE IF ratio <= Unit THEN "Action (Audacity)"
    ELSE "Equilibrium (Honor)"
\* TrajectoryMechanic._phase_name
_phase_name(ratio) ==
    IF 4 * ratio < Unit THEN "Initiation (Courage)"
    ELSE IF 2 * ratio < Unit THEN "Adaptation (Dexterity)"
    ELSE IF 4 * ratio < 3 * Unit THEN "Verification (Clause Matter)"
    ELSE IF ratio < Unit THEN "Action (Audacity)"
    ELSE "Equilibrium (Honor)"

\* TrajectoryMechanic.score, self.honor passed as honor (a multiple of 1e-4 in
\* (0, 1], so that max(self.honor, 1e-6) is self.honor)
score(courage, dexterity, clause_matter, audacity, honor) ==
    LET C == _clamp(courage)
        D == _clamp(dexterity)
        M == _clamp(clause_matter)
        A == _clamp(audacity)
        numerator == C + D + M + A
        denominator == 4 * honor
        ratio == RoundDiv(numerator * Unit, denominator)
    IN  [C |-> C, D |-> D, M |-> M, A |-> A, ratio |-> ratio,
         phase |-> _phase_name(ratio), honor |-> honor]

\* TrajectoryMechanic.__init__(honor): the instance, or the ValueError
TrajectoryMechanic(honor) ==
    IF ~(0 < honor /\ honor <= Unit) THEN Raised("ValueError")
    ELSE Returned([honor |-> honor])

\* -------------------------------------------- TM.py TrajectoryMechanic
\* x < y of Python on these values: an exception, or the truth value
Less(x, y) ==
    IF x.type \in {"str", "NoneType"} \/ y.type \in {"str", "NoneType"}
    THEN Raised("TypeError")
    ELSE IF x.type = "nan" \/ y.type = "nan" THEN Returned(FALSE)
    ELSE IF x.type = "inf" THEN Returned(x.sign < 0 /\ y # x)
    ELSE IF y.type = "inf" THEN Returned(y.sign > 0)
    ELSE Returned(x.value < y.value)

\* min(a, b) and max(a, b) of Python: b when b < a (when b > a), else a
py_min(a, b) ==
    LET lt == Less(b, a)
    IN  IF lt.raised # "" THEN lt ELSE Returned(IF lt.value THEN b ELSE a)
py_max(a, b) ==
    LET gt == Less(a, b)
    IN  IF gt.raised # "" THEN gt ELSE Returned(IF gt.value THEN b ELSE a)

\* TM.py _clamp: max(0.0, min(1.0, val))
tm_clamp(val) ==
    LET inner == py_min(PyFloat(Unit), val)
    IN  IF inner.raised # "" THEN inner ELSE py_max(PyFloat(0), inner.value)

\* fractions, for the moving average that TM.py keeps between calls
RECURSIVE GCD(_, _)
GCD(a, b) == IF b = 0 THEN a ELSE GCD(b, a % b)
Abs(a) == IF a < 0 THEN -a ELSE a
Fraction(num, den) ==
    LET g == GCD(Abs(num), Abs(den))
        sign == IF den < 0 THEN -1 ELSE 1
    IN  [num |-> sign * (num \div g), den |-> sign * (den \div g)]
FractionAdd(x, y) == Fraction(x.num * y.den + y.num * x.den, x.den * y.den)
FractionMul(x, y) == Fraction(x.num * y.num, x.den * y.den)

\* round(x, 4) of a fraction, in units of 1e-4
Round4(x) ==
    (x.num \div x.den) * Unit + RoundDiv((x.num % x.den) * Unit, x.den)

\* smoothing_alpha, and 1 - smoothing_alpha
smoothing_alpha == Fraction(3, 10)
OneMinusAlpha == Fraction(7, 10)

\* TM.py _determine_phase with the default phase_thresholds [0.25, 0.5, 0.75, 1.0]
tm_determine_phase(ratio) ==
    IF 4 * ratio < Unit THEN "Initiation (Courage)"
    ELSE IF 2 * ratio < Unit THEN "Adaptation (Dexterity)"
    ELSE IF 4 * ratio < 3 * Unit THEN "Verification (Clause Matter)"
    ELSE IF ratio < Unit THEN "Action (Audacity)"
    ELSE "Equilibrium (Honor)"

\* TM.py TrajectoryMechanic(honor=honor): the dataclass takes any honor
tm_TrajectoryMechanic(honor) ==
    Returned([courage |-> 0, dexterity |-> 0, clause_matter |-> 0, audacity |-> 0,
              honor |-> honor, history |-> <<>>, _ema_ratio |-> PyNone])

\* TM.py compute_trajectory: the instance after the call and what the call
\* comes to (the timestamp of the result left out)
tm_compute_trajectory(self) ==
    IF self.honor = 0 THEN [self |-> self, raised |-> "ZeroDivisionError"]
    ELSE
        LET raw_ratio == Fraction(self.courage + self.dexterity + self.clause_matter
                                      + self.audacity, 4 * self.honor)
            ema == IF self._ema_ratio = PyNone THEN raw_ratio
                   ELSE FractionAdd(FractionMul(smoothing_alpha, raw_ratio),
                                    FractionMul(OneMinusAlpha, self._ema_ratio))
            ratio == Round4(ema)
        IN  [self |-> [self EXCEPT !._ema_ratio = ema], raised |-> "",
             value |-> [ratio |-> ratio, phase |-> tm_determine_phase(ratio)]]

\* TM.py update: the four assignments in their order, an exception leaving
\* the earlier ones done; then the snapshot, appended to the history
tm_update(self, courage, dexterity, clause_matter, audacity) ==
    LET c == tm_clamp(courage)
        d == tm_clamp(dexterity)
        m == tm_clamp(clause_matter)
        a == tm_clamp(audacity)
        self1 == [self EXCEPT !.courage = c.value.value]
        self2 == [self1 EXCEPT !.dexterity = d.value.value]
        self3 == [self2 EXCEPT !.clause_matter = m.value.value]
        self4 == [self3 EXCEPT !.audacity = a.value.value]
        result == tm_compute_trajectory(self4)
        snapshot == [courage |-> self4.courage, dexterity |-> self4.dexterity,
                     clause_matter |-> self4.clause_matter, audacity |-> self4.audacity,
                     result |-> result.value]
    IN  IF c.raised # "" THEN [self |-> self, raised |-> c.raised]
        ELSE IF d.raised # "" THEN [self |-> self1, raised |-> d.raised]
        ELSE IF m.raised # "" THEN [self |-> self2, raised |-> m.raised]
        ELSE IF a.raised # "" THEN [self |-> self3, raised |-> a.raised]
        ELSE IF result.raised # "" THEN [self |-> self4, raised |-> result.raised]
        ELSE [self |-> [result.self EXCEPT !.history = Append(@, snapshot)],
              raised |-> "", value |-> snapshot]

\* TM.py report: the current state and trajectory
tm_report(self) ==
    LET result == tm_compute_trajectory(self)
    IN  IF result.raised # "" THEN result
        ELSE [self |-> result.self, raised |-> "",
              value |-> [Fivefold |-> [Courage |-> self.courage,
                                       Dexterity |-> self.dexterity,
                                       ClauseMatter |-> self.clause_matter,
                                       Audacity |-> self.audacity,
                                       Honor |-> self.honor],
                         Trajectory |-> result.value]]

\* ------------------------------------------------ CME.py HSMEnhancedMiner
\* a ^ b and a | b on naturals
RECURSIVE BitXor(_, _)
BitXor(a, b) ==
    IF a = 0 THEN b ELSE IF b = 0 THEN a
    ELSE ((a + b) % 2) + 2 * BitXor(a \div 2, b \div 2)

RECURSIVE BitOr(_, _)
BitOr(a, b) ==
    IF a = 0 THEN b ELSE IF b = 0 THEN a
    ELSE Max(a % 2, b % 2) + 2 * BitOr(a \div 2, b \div 2)

\* threat_data.get(key, 0)
Get(threat_data, key) == IF key \in DOMAIN threat_data THEN threat_data[key] ELSE 0

\* (variant: the longitude added as it is)
_calculate_base_nonce_adding_lon(threat_data, trajectory) ==
    LET combined == BitXor(trajectory.C \div 10, trajectory.D \div 10)
                        + BitOr(trajectory.M \div 10, trajectory.A \div 10)
        located == IF "lat" \in DOMAIN threat_data /\ "lon" \in DOMAIN threat_data
                   THEN BitXor(combined, IF threat_data.lat < 0 THEN -threat_data.lat
                                         ELSE threat_data.lat)
                            + (IF threat_data.lon < 0 THEN -threat_data.lon
                               ELSE threat_data.lon)
                   ELSE combined
    IN  located % 1000000
\* _calculate_base_nonce; int(x * 1000) of a score x is its units \div 10, and
\* lat, lon are given in millionths of a degree
_calculate_base_nonce(threat_data, trajectory) ==
    LET courage_factor == trajectory.C \div 10
        dexterity_factor == trajectory.D \div 10
        clause_factor == trajectory.M \div 10
        audacity_factor == trajectory.A \div 10
        combined == BitXor(courage_factor, dexterity_factor)
                        + BitOr(clause_factor, audacity_factor)
        located == IF "lat" \in DOMAIN threat_data /\ "lon" \in DOMAIN threat_data
                   THEN LET lat_int == IF threat_data.lat < 0 THEN -threat_data.lat
                                       ELSE threat_data.lat
                            lon_int == IF threat_data.lon < 0 THEN -threat_data.lon
                                       ELSE threat_data.lon
                        IN  BitXor(combined, lat_int) + BitOr(combined, lon_int)
                   ELSE combined
    IN  located % 1000000

\* base_range of _calculate_nonce_range
base_range == 1000000

\* (variant: no phase found among the keys, the default 1.0 taken for each)
PhaseMultiplierDefault(phase) == 10
\* phase_multipliers of _calculate_nonce_range, in tenths
PhaseMultiplier(phase) ==
    CASE phase = "Initiation (Courage)" -> 20
      [] phase = "Adaptation (Dexterity)" -> 15
      [] phase = "Verification (Clause Matter)" -> 12
      [] phase = "Action (Audacity)" -> 8
      [] phase = "Equilibrium (Honor)" -> 5
      [] OTHER -> 10

\* (variant: the multiplier cut to an integer before it is applied)
_calculate_nonce_range_int_multiplier(trajectory) ==
    LET multiplier == PhaseMultiplier(trajectory.phase) \div 10
        range_size == base_range * multiplier
    IN  <<0, range_size>>
\* _calculate_nonce_range
_calculate_nonce_range(trajectory) ==
    LET multiplier == PhaseMultiplier(trajectory.phase)
        range_size == (base_range * multiplier) \div 10
    IN  <<0, range_size>>

\* _get_success_rate
_get_success_rate(mined_blocks) ==
    IF mined_blocks = 0 THEN 0
    ELSE Min(Unit, (mined_blocks * Unit) \div (mined_blocks + 10))

\* generate_targeted_nonce, called at time t when secrets.token_hex(4) gives token
generate_targeted_nonce(self, threat_data, t, token) ==
    LET trajectory == score(PyFloat(Get(threat_data, "courage")),
                            PyFloat(Get(threat_data, "dexterity")),
                            PyFloat(Get(threat_data, "clause_matter")),
                            PyFloat(Get(threat_data, "audacity")), Unit)
    IN  [nonce_id |-> "HSM-NONCE-" \o ToString(t) \o "-" \o ToString(token),
         timestamp |-> t,
         trajectory_score |-> trajectory,
         threat_characteristics |->
             [phase |-> trajectory.phase,
              ratio |-> trajectory.ratio,
              components |-> [courage |-> Get(threat_data, "courage"),
                              dexterity |-> Get(threat_data, "dexterity"),
                              clause_matter |-> Get(threat_data, "clause_matter"),
                              audacity |-> Get(threat_data, "audacity")]],
         miner_context |-> [difficulty |-> self.difficulty,
                            previous_success_rate |->
                                _get_success_rate(self.mined_blocks)],
         base_nonce |-> _calculate_base_nonce(threat_data, trajectory),
         nonce_range |-> _calculate_nonce_range(trajectory)]

\* json.dumps(nonce_metadata, sort_keys=True) of the miner's metadata
json_dumps_metadata(md) ==
    LET c == md.threat_characteristics.components
        s == md.trajectory_score
    IN  Preimage("{base_nonce: " \o ToString(md.base_nonce)
                   \o ", miner_context: {difficulty: "
                   \o ToString(md.miner_context.difficulty)
                   \o ", previous_success_rate: "
                   \o ToString(md.miner_context.previous_success_rate)
                   \o "}, nonce_id: " \o md.nonce_id
                   \o ", nonce_range: [" \o ToString(md.nonce_range[1]) \o ", "
                   \o ToString(md.nonce_range[2])
                   \o "], threat_characteristics: {components: {audacity: "
                   \o ToString(c.audacity) \o ", clause_matter: "
                   \o ToString(c.clause_matter) \o ", courage: " \o ToString(c.courage)
                   \o ", dexterity: " \o ToString(c.dexterity)
                   \o "}, phase: " \o md.threat_characteristics.phase
                   \o ", ratio: " \o ToString(md.threat_characteristics.ratio)
                   \o "}, timestamp: " \o ToString(md.timestamp)
                   \o ", trajectory_score: {A: " \o ToString(s.A)
                   \o ", C: " \o ToString(s.C) \o ", D: " \o ToString(s.D)
                   \o ", M: " \o ToString(s.M) \o ", honor: " \o ToString(s.honor)
                   \o ", phase: " \o s.phase \o ", ratio: " \o ToString(s.ratio) \o "}}",
                 <<md.base_nonce, md.miner_context.difficulty,
                   md.miner_context.previous_success_rate, md.nonce_range[2],
                   c.audacity, c.clause_matter, c.courage, c.dexterity,
                   md.timestamp, s.ratio>>)

\* ---------------------------------- proxy.py HSMProxyUtilizationMiner
\* generate_utilization_aware_nonce: the metadata of a proxy search, with the
\* base_nonce that calculate_utilization_nonce gave
generate_utilization_aware_nonce(self, threat_score, base_nonce, t, token) ==
    [nonce_id |-> "UTIL-NONCE-" \o ToString(t) \o "-" \o ToString(token),
     timestamp |-> t,
     utilization_context |-> [threat_score |-> threat_score],
     mining_context |-> [difficulty |-> self.mining_difficulty,
                         base_nonce |-> base_nonce]]

\* json.dumps(nonce_metadata, sort_keys=True) of the proxy's metadata
json_dumps_utilization(md) ==
    Preimage("{mining_context: {base_nonce: " \o ToString(md.mining_context.base_nonce)
               \o ", difficulty: " \o ToString(md.mining_context.difficulty)
               \o "}, nonce_id: " \o md.nonce_id
               \o ", timestamp: " \o ToString(md.timestamp)
               \o ", utilization_context: {threat_score: "
               \o ToString(md.utilization_context.threat_score) \o "}}",
             <<md.mining_context.base_nonce, md.mining_context.difficulty,
               md.timestamp, md.utilization_context.threat_score>>)

\* ------------------------------------------------- the targeted search
\* _calculate_candidate_hash, and the same two lines of mine_with_range:
\* sha256 of f"{nonce}:{json.dumps(nonce_metadata, sort_keys=True)}"
_calculate_candidate_hash(nonce, nonce_metadata) ==
    LET dumped == IF "mining_context" \in DOMAIN nonce_metadata
                  THEN json_dumps_utilization(nonce_metadata)
                  ELSE json_dumps_metadata(nonce_metadata)
    IN  sha256(Preimage(ToString(nonce) \o ":" \o dumped.text, <<nonce, dumped.sum>>))

\* (variant: one zero short)
TargetPrefixShort(difficulty) == Zeros(difficulty - 1)
\* target_prefix = "0" * self.difficulty
TargetPrefix(difficulty) == Zeros(difficulty)

\* (variant: > where >= is meant)
TimedOutStrictly(elapsed, timeout) == elapsed > timeout
\* the timeout check of the loops: (time.time() - start_time) >= timeout
TimedOut(elapsed, timeout) == elapsed >= timeout

\* base_reward of HSMEnhancedMiner: 0.001 token, in units of 1e-9 token
base_reward == 1000000

\* SCORE_THRESHOLD = float(os.environ.get("HS_SCORE_THRESHOLD", "0.8"))
SCORE_THRESHOLD == 8000

\* (variant: the multipliers of the two middle tiers exchanged)
ScoreMultiplierTiersExchanged(nwi_score) ==
    IF nwi_score >= 9000 THEN 25
    ELSE IF nwi_score >= 8000 THEN 15
    ELSE IF nwi_score >= 7000 THEN 20
    ELSE IF nwi_score >= 6000 THEN 12
    ELSE 10
\* calculate_mining_reward: base_multiplier, in tenths
ScoreMultiplier(nwi_score) ==
    IF nwi_score >= 9000 THEN 25
    ELSE IF nwi_score >= 8000 THEN 20
    ELSE IF nwi_score >= 7000 THEN 15
    ELSE IF nwi_score >= 6000 THEN 12
    ELSE 10

\* calculate_mining_reward: threat_multipliers.get(threat_level, 1.0), in tenths
ThreatMultiplier(threat_level) ==
    CASE threat_level = "CRITICAL" -> 30
      [] threat_level = "HIGH" -> 20
      [] threat_level = "MEDIUM" -> 15
      [] threat_level = "LOW" -> 10
      [] OTHER -> 10

\* NWICryptoMiner.calculate_mining_reward (base_reward a multiple of 1e-7 token)
calculate_mining_reward(self, nwi_score, threat_level) ==
    (((self.base_reward * ScoreMultiplier(nwi_score)) \div 10)
         * ThreatMultiplier(threat_level)) \div 10

\* calculate_hsm_reward: base_reward * (1.0 + threat_score * 2.0) * 1.5
calculate_hsm_reward(self, threat_score) ==
    ((self.base_reward \div Unit) * (Unit + 2 * threat_score) * 15) \div 10

\* ------------------------------------------------------------ the state
VARIABLES
    impl,       \* which BlockchainNWIEngine backs the ledger: HSM.py or engine.py
    built,      \* how many times the engine has been constructed over the chain
    chain,      \* the chain: the lines of chain_file (HSM.py), self.chain (engine.py)
    pending,    \* self.pending_transactions
    now,        \* the wall clock: what utc_now_iso() returns next; every reading is later
                \* than the one before
    pc,         \* per writer: where it stands in mine_block or in create-then-add
    prev,       \* per writer: its local previous_hash
    nonce,      \* per writer: its local nonce
    diff,       \* per writer: the difficulty mine_block was called with
    cand,       \* per writer: the block it built last
    ret,        \* per writer: the last call that returned and what it returned
    report,     \* what verify_chain_integrity returned last, on the chain as it is
    tampered,   \* the position of the block edited in the chain file, -1 when none
    miner,      \* HSMEnhancedMiner: difficulty, base_reward and the statistics
    proxy,      \* HSMProxyUtilizationMiner: mining_difficulty
    call,       \* the frame of mine_with_hsm_targeting
    search,     \* the frame of _mine_targeted_range or mine_with_range
    hist,       \* what the search in progress did: the candidates it hashed (tried),
                \* whether a timeout check of it saw the timeout (observed); and
                \* what the searches of the call in progress returned (found)
    mtime,      \* time.time(), counted from the start of the operation in progress
    work,       \* the candidates hashed since the clock last moved
    tm,         \* the TrajectoryMechanic: whose it is (HSM.py, TM.py), and the
                \* instance or the exception its construction came to
    calls,      \* the calls made on it, each with its arguments and outcome
    loop,       \* the thread of start_continuous_mining: where mining_loop stands,
                \* mining_active, the transaction pool, the cycles it has run
    mgr,        \* IncidentManager: its threshold, the batch example_cli_ingest walks,
                \* the ledger file of append_ledger, the incident files, the alerts
    app,        \* the threads inside append_ledger and the lock each one made
    util        \* HSMProxyUtilizationMiner: mining_intensity, and the frame of
                \* mine_with_utilization_awareness

lvars == <<impl, built, chain, pending, now, pc, prev, nonce, diff, cand, ret, report, tampered>>
mvars == <<miner, proxy, call, search, hist, mtime, work>>
svars == <<tm, calls>>
ovars == <<loop, mgr, app, util>>
vars == <<lvars, mvars, svars, ovars>>

NoReport == [status |-> "none"]

\* the report and score handed to add_nwi_report
ReportInputs == {[id |-> "r1", ratio |-> 7375]}

\* BlockchainNWIEngine(): HSM.py __init__/_initialize_chain on a fresh ledger
\* directory, engine.py __init__/create_genesis_block
Construct(which, ts) ==
    IF which = "HSM"
    THEN _initialize_chain(FALSE, <<>>, ts)
    ELSE <<engine_create_genesis_block(ts)>>

\* None, as a search returns it
NoResult == [nonce |-> -1]

\* no call of mine_with_hsm_targeting, no search, nothing done yet
IdleCall ==
    [pc |-> "idle", threat_reports |-> <<>>, timeout |-> 0, i |-> 0, start_time |-> 0,
     best_block |-> NoResult, best_threat_score |-> 0, result |-> NoResult]
IdleSearch == [pc |-> "idle"]
NewHistory == [tried |-> <<>>, observed |-> FALSE, found |-> <<>>]

\* no mining thread started: mining_active is False, the pool is empty;
\* block: what mine_nwi_block returned to mining_loop; put: every transaction
\* the owner of the pool has put into it
IdleLoop ==
    [pc |-> "none", mining_active |-> FALSE, transaction_pool |-> <<>>, cycles |-> 0,
     raised |-> "", block |-> NoBlock, put |-> {}]

\* IncidentManager(threshold, webhook) over the ledger directory as it is;
\* reports, i, printed: the batch example_cli_ingest walks and what it printed
IncidentManager(threshold, webhook, files) ==
    [threshold |-> threshold, webhook |-> webhook, reports |-> <<>>, i |-> 0,
     printed |-> <<>>, ledger |-> files.ledger, incident_files |-> files.incident_files,
     posted |-> files.posted, incidents_file |-> files.incidents_file]

\* an empty ledger directory, and nothing posted to the webhook
NoFiles == [ledger |-> <<>>, incident_files |-> <<>>, posted |-> <<>>,
            incidents_file |-> <<>>]

\* no thread inside append_ledger, no lock made, the ledger file empty
IdleAppenders ==
    [pc |-> [t \in Writers |-> "idle"], entry |-> [t \in Writers |-> <<>>],
     lock |-> [t \in Writers |-> 0], locked |-> {}, made |-> 0, file |-> <<>>]

\* HSMProxyUtilizationMiner.__init__: mining_intensity 1.0, strategy
\* 'balanced', the counters at 0, and no request being mined
IdleUtilization ==
    [mining_intensity |-> Unit, current_strategy |-> "balanced", updates |-> 0,
     pc |-> "idle", mining_strategy |-> "", threat_score |-> 0,
     nonce_metadata |-> [nonce_id |-> ""], mining_attempts |-> 0,
     mining_successes |-> 0, total_rewards |-> 0, mining_result |-> NoResult]

\* the services of the miners before anything is started
NothingRunning ==
    /\ loop = IdleLoop
    /\ mgr = IncidentManager(SCORE_THRESHOLD, FALSE, NoFiles)
    /\ app = IdleAppenders
    /\ util = IdleUtilization

\* HSMEnhancedMiner(difficulty), HSMProxyUtilizationMiner(mining_difficulty)
\* and nothing running
MinersConstructed(d) ==
    /\ miner = [difficulty |-> d, base_reward |-> base_reward, mined_blocks |-> 0,
                total_rewards |-> 0, threat_based_rewards |-> 0]
    /\ proxy = [mining_difficulty |-> d]
    /\ call = IdleCall
    /\ search = IdleSearch
    /\ hist = NewHistory
    /\ mtime = 0
    /\ work = 0
    /\ NothingRunning

\* TrajectoryMechanic(honor=honor) of HSM.py or of TM.py, and no call made yet
EngineConstructed(which, honor) ==
    /\ tm = [which |-> which,
             made |-> IF which = "HSM" THEN TrajectoryMechanic(honor)
                      ELSE tm_TrajectoryMechanic(honor)]
    /\ calls = <<>>

LedgerConstructed(which) ==
    /\ impl = which
    /\ built = 1
    /\ now = 1
    /\ chain = Construct(impl, 0)
    /\ pending = <<>>
    /\ pc = [w \in Writers |-> "idle"]
    /\ prev = [w \in Writers |-> ""]
    /\ nonce = [w \in Writers |-> 0]
    /\ diff = [w \in Writers |-> 0]
    /\ cand = [w \in Writers |-> NoBlock]
    /\ ret = [w \in Writers |-> [op |-> "init", value |-> NoBlock]]
    /\ report = NoReport
    /\ tampered = -1

\* the miners' runs: a miner of some difficulty beside a ledger at its genesis
InitMining ==
    /\ LedgerConstructed("HSM")
    /\ \E d \in Difficulties : MinersConstructed(d)
    /\ EngineConstructed("HSM", Unit)

\* the ledger's runs: either engine at its genesis, the miners at rest
Init ==
    /\ \E which \in {"HSM", "engine"} : LedgerConstructed(which)
    /\ MinersConstructed(4)
    /\ EngineConstructed("HSM", Unit)

\* the ledger of HSM.py alone
InitHSM ==
    /\ LedgerConstructed("HSM")
    /\ MinersConstructed(4)
    /\ EngineConstructed("HSM", Unit)

AllIdle == \A w \in Writers : pc[w] = "idle"

\* last_block["block_hash"] if last_block else "0" * 64
PreviousHashOf(last_block) ==
    IF last_block # NoBlock THEN last_block.block_hash ELSE Zeros(64)

\* a call returns: its local variables are gone
ForgetLocals(w) ==
    /\ prev' = [prev EXCEPT ![w] = ""]
    /\ nonce' = [nonce EXCEPT ![w] = 0]
    /\ diff' = [diff EXCEPT ![w] = 0]
    /\ cand' = [cand EXCEPT ![w] = NoBlock]

\* add_nwi_report(report, trajectory_score)
AddNwiReport(r) ==
    /\ impl = "HSM"
    /\ AllIdle
    /\ Len(pending) < MaxPending
    /\ pending' = Append(pending, create_nwi_transaction(r.id, r.ratio, now))
    /\ now' = now + 1
    /\ UNCHANGED <<impl, built, chain, pc, prev, nonce, diff, cand, ret, report, tampered>>
    /\ UNCHANGED <<mvars, svars, ovars>>

\* mine_block with nothing pending: returns None
MineBlockEmpty(w) ==
    /\ impl = "HSM"
    /\ pc[w] = "idle"
    /\ pending = <<>>
    /\ ret' = [ret EXCEPT ![w] = [op |-> "mine_block", value |-> NoBlock]]
    /\ UNCHANGED <<impl, built, chain, pending, now, pc, prev, nonce, diff, cand, report, tampered>>
    /\ UNCHANGED <<mvars, svars, ovars>>

\* mine_block(difficulty): reads the last block, starts the search at nonce 0
MineBlockBegin(w, d) ==
    /\ impl = "HSM"
    /\ pc[w] = "idle"
    /\ pending # <<>>
    /\ Len(chain) < MaxChain
    /\ prev' = [prev EXCEPT ![w] = PreviousHashOf(_get_last_block(chain))]
    /\ nonce' = [nonce EXCEPT ![w] = 0]
    /\ diff' = [diff EXCEPT ![w] = d]
    /\ pc' = [pc EXCEPT ![w] = "mine"]
    /\ UNCHANGED <<impl, built, chain, pending, now, cand, ret, report, tampered>>
    /\ UNCHANGED <<mvars, svars, ovars>>

\* one turn of the proof-of-work loop of mine_block
MineBlockTry(w) ==
    /\ pc[w] = "mine"
    /\ LET block == _create_block(chain, prev[w], pending, nonce[w], now)
       IN  IF MeetsDifficulty(block.block_hash, diff[w])
           THEN /\ cand' = [cand EXCEPT ![w] = block]
                /\ pc' = [pc EXCEPT ![w] = "add"]
                /\ UNCHANGED nonce
           ELSE /\ nonce[w] < MaxNonce
                /\ nonce' = [nonce EXCEPT ![w] = nonce[w] + 1]
                /\ UNCHANGED <<cand, pc>>
    /\ now' = now + 1
    /\ UNCHANGED <<impl, built, chain, pending, prev, diff, ret, report, tampered>>
    /\ UNCHANGED <<mvars, svars, ovars>>

\* (variant: the pending transactions kept after the block is added)
MineBlockAdd_keeping_pending(w) ==
    /\ pc[w] = "add"
    /\ chain' = _add_block(chain, cand[w])
    /\ ret' = [ret EXCEPT ![w] = [op |-> "mine_block", value |-> cand[w]]]
    /\ pc' = [pc EXCEPT ![w] = "idle"]
    /\ report' = NoReport
    /\ ForgetLocals(w)
    /\ UNCHANGED <<impl, built, pending, now, tampered>>
    /\ UNCHANGED <<mvars, svars, ovars>>
\* the end of mine_block: _add_block(block), pending_transactions = [], return block
MineBlockAdd(w) ==
    /\ pc[w] = "add"
    /\ chain' = _add_block(chain, cand[w])
    /\ pending' = <<>>
    /\ ret' = [ret EXCEPT ![w] = [op |-> "mine_block", value |-> cand[w]]]
    /\ pc' = [pc EXCEPT ![w] = "idle"]
    /\ report' = NoReport
    /\ ForgetLocals(w)
    /\ UNCHANGED <<impl, built, now, tampered>>
    /\ UNCHANGED <<mvars, svars, ovars>>

\* a caller of _create_block and _add_block (the miners of CME.py): it reads
\* the last block first
CallerBegin(w) ==
    /\ pc[w] = "idle"
    /\ Len(chain) < MaxChain
    /\ prev' = [prev EXCEPT ![w] = PreviousHashOf(_get_last_block(chain))]
    /\ pc' = [pc EXCEPT ![w] = "create"]
    /\ UNCHANGED <<impl, built, chain, pending, now, nonce, diff, cand, ret, report, tampered>>
    /\ UNCHANGED <<mvars, svars, ovars>>

\* ... builds a candidate with _create_block
CallerCreate(w, r, n) ==
    /\ pc[w] = "create"
    /\ cand' = [cand EXCEPT ![w] =
                  IF impl = "HSM"
                  THEN _create_block(chain, prev[w],
                           <<create_nwi_transaction(r.id, r.ratio, now)>>, n, now + 1)
                  ELSE engine_create_block(chain, prev[w],
                           <<create_nwi_transaction(r.id, r.ratio, now)>>, n, now + 1)]
    /\ nonce' = [nonce EXCEPT ![w] = n]
    /\ pc' = [pc EXCEPT ![w] = "append"]
    /\ now' = now + 2
    /\ UNCHANGED <<impl, built, chain, pending, prev, diff, ret, report, tampered>>
    /\ UNCHANGED <<mvars, svars, ovars>>

\* ... and hands it to _add_block
CallerAdd(w) ==
    /\ pc[w] = "append"
    /\ chain' = (IF impl = "HSM" THEN _add_block(chain, cand[w]) ELSE Append(chain, cand[w]))
    /\ ret' = [ret EXCEPT ![w] = [op |-> "_add_block", value |-> cand[w]]]
    /\ pc' = [pc EXCEPT ![w] = "idle"]
    /\ report' = NoReport
    /\ ForgetLocals(w)
    /\ UNCHANGED <<impl, built, pending, now, tampered>>
    /\ UNCHANGED <<mvars, svars, ovars>>

\* verify_chain_integrity()
Verify ==
    /\ impl = "HSM"
    /\ AllIdle
    /\ report = NoReport
    /\ report' = verify_chain_integrity(chain)
    /\ UNCHANGED <<impl, built, chain, pending, now, pc, prev, nonce, diff, cand, ret, tampered>>
    /\ UNCHANGED <<mvars, svars, ovars>>

WriterStep(w) ==
    \/ MineBlockEmpty(w)
    \/ \E d \in Difficulties : MineBlockBegin(w, d)
    \/ MineBlockTry(w)
    \/ MineBlockAdd(w)
    \/ CallerBegin(w)
    \/ \E r \in ReportInputs, n \in {0, 1} : CallerCreate(w, r, n)
    \/ CallerAdd(w)

LedgerStep ==
    \/ \E r \in ReportInputs : AddNwiReport(r)
    \/ Verify

\* one writer: every ledger operation runs to its end before the next starts
Next == WriterStep(1) \/ LedgerStep

Spec == Init /\ [][Next]_vars

\* two writers on the same ledger, their steps interleaved: neither HSM.py nor
\* engine.py takes a lock around the chain; each writer runs one operation
NextConc == (\E w \in Writers : ret[w].op = "init" /\ WriterStep(w)) \/ LedgerStep

SpecConc == Init /\ [][NextConc]_vars

\* BlockchainNWIEngine() once more, over the chain file that is there: a new
\* instance with no pending transactions
Reconstruct(w) ==
    /\ impl = "HSM"
    /\ AllIdle
    /\ built < MaxBuilt
    /\ chain' = _initialize_chain(TRUE, chain, now)
    /\ pending' = <<>>
    /\ ret' = [ret EXCEPT ![w] = [op |-> "__init__", value |-> NoBlock]]
    /\ built' = built + 1
    /\ UNCHANGED <<impl, now, pc, prev, nonce, diff, cand, report, tampered>>
    /\ UNCHANGED <<mvars, svars, ovars>>

\* reports added and blocks mined, and the program started over on the same
\* chain file
NextRestart ==
    \/ Reconstruct(1)
    \/ \E r \in ReportInputs : AddNwiReport(r)
    \/ MineBlockEmpty(1)
    \/ \E d \in Difficulties : MineBlockBegin(1, d)
    \/ MineBlockTry(1)
    \/ MineBlockAdd(1)

SpecRestart == InitHSM /\ [][NextRestart]_vars

\* --------------------------------------- blocks over lists of transactions
\* transactions as add_nwi_report makes them
TxPool ==
    {create_nwi_transaction("r1", 7375, 1), create_nwi_transaction("r1", 7375, 2),
     create_nwi_transaction("r2", 2500, 2)}

\* self.pending_transactions after some add_nwi_report calls
PendingLists == UNION {[1..n -> TxPool] : n \in 0..MaxTxs}

\* the HSM.py engine with transactions pending
InitMerkle ==
    /\ impl = "HSM"
    /\ built = 1
    /\ now = 3
    /\ chain = Construct(impl, 0)
    /\ pending \in PendingLists
    /\ pc = [w \in Writers |-> "idle"]
    /\ prev = [w \in Writers |-> ""]
    /\ nonce = [w \in Writers |-> 0]
    /\ diff = [w \in Writers |-> 0]
    /\ cand = [w \in Writers |-> NoBlock]
    /\ ret = [w \in Writers |-> [op |-> "init", value |-> NoBlock]]
    /\ report = NoReport
    /\ tampered = -1
    /\ MinersConstructed(4)
    /\ EngineConstructed("HSM", Unit)

\* mine_block over them
NextMerkle ==
    \/ MineBlockEmpty(1)
    \/ \E d \in Difficulties : MineBlockBegin(1, d)
    \/ MineBlockTry(1)
    \/ MineBlockAdd(1)

SpecMerkle == InitMerkle /\ [][NextMerkle]_vars

\* ------------------------------------------------ editing the chain file
\* demonstrate_tamper_resistance: a transaction of a stored block is changed
\* and the block is written back with its hash fields as they were
ForgedTx == create_nwi_transaction("forged", 9990, 0)
TamperTransactions(txs) ==
    IF txs = <<>> THEN <<ForgedTx>>
    ELSE [txs EXCEPT ![1] = [@ EXCEPT !.report_data = [@ EXCEPT !.ratio = 9990]]]

Tamper(k) ==
    /\ impl = "HSM"
    /\ AllIdle
    /\ tampered = -1
    /\ k \in 1..Len(chain)
    /\ chain' = [chain EXCEPT ![k] = [@ EXCEPT !.transactions = TamperTransactions(@)]]
    /\ tampered' = k - 1
    /\ report' = NoReport
    /\ UNCHANGED <<impl, built, pending, now, pc, prev, nonce, diff, cand, ret>>
    /\ UNCHANGED <<mvars, svars, ovars>>

NextTamper == Next \/ (\E k \in 1..MaxChain : Tamper(k))

SpecTamper == Init /\ [][NextTamper]_vars

\* the stored block with other transactions, its merkle_root and block_hash
\* computed again over them as _create_block computes them
Resealed(block, transactions) ==
    LET edited == [block EXCEPT !.transactions = transactions,
                                !.merkle_root = _calculate_merkle_root(transactions)]
    IN  [edited EXCEPT !.block_hash = _calculate_block_hash(edited)]

\* the chain file rewritten with block k edited and resealed
TamperResealed(k) ==
    /\ impl = "HSM"
    /\ AllIdle
    /\ tampered = -1
    /\ k \in 1..Len(chain)
    /\ chain' = [chain EXCEPT ![k] = Resealed(@, TamperTransactions(@.transactions))]
    /\ tampered' = k - 1
    /\ report' = NoReport
    /\ UNCHANGED <<impl, built, pending, now, pc, prev, nonce, diff, cand, ret>>
    /\ UNCHANGED <<mvars, svars, ovars>>

NextReseal == Next \/ (\E k \in 1..MaxChain : TamperResealed(k))

SpecReseal == InitHSM /\ [][NextReseal]_vars

\* ================================================== the targeted search
\* the reports handed to the miner
ThreatReports ==
    {[id |-> "t0", courage |-> 0, dexterity |-> 0, clause_matter |-> 0, audacity |-> 0],
     [id |-> "t1", courage |-> 5000, dexterity |-> 5000, clause_matter |-> 5000,
      audacity |-> 5000],
     [id |-> "t2", courage |-> 8000, dexterity |-> 7000, clause_matter |-> 8500,
      audacity |-> 6000]}

\* the lists of at most MaxReports reports
ReportLists == UNION {[1..n -> ThreatReports] : n \in 0..MaxReports}

Tokens == 0..MaxToken
Timeouts == 0..MaxTime

\* the frame of a search that starts at time t
SearchFrame(kind, nonce_metadata, first, end_nonce, timeout, difficulty, t) ==
    [pc |-> "loop", kind |-> kind, nonce_metadata |-> nonce_metadata,
     start_nonce |-> first, nonce |-> first, end_nonce |-> end_nonce,
     target_prefix |-> TargetPrefix(difficulty), start_time |-> t,
     timeout |-> timeout, hashes_calculated |-> 0, result |-> NoResult]

\* _mine_targeted_range(nonce_metadata, start_nonce, range_size, timeout), up
\* to the head of its loop
MineTargetedRangeBegin(threat_data, token, start_nonce, range_size, timeout) ==
    /\ call.pc = "idle"
    /\ search.pc = "idle"
    /\ search' = SearchFrame("hsm", generate_targeted_nonce(miner, threat_data, 0, token),
                             start_nonce, start_nonce + range_size, timeout,
                             miner.difficulty, 0)
    /\ hist' = NewHistory
    /\ mtime' = 0
    /\ work' = 0
    /\ UNCHANGED <<miner, proxy, call>>
    /\ UNCHANGED <<lvars, svars, ovars>>

\* mine_with_range(nonce_metadata, start, end, timeout), up to the head of its loop
MineWithRangeBegin(threat_score, base_nonce, token, start, end, timeout) ==
    /\ call.pc = "idle"
    /\ search.pc = "idle"
    /\ LET nonce_metadata ==
               generate_utilization_aware_nonce(proxy, threat_score, base_nonce, 0, token)
       IN  search' = SearchFrame("proxy", nonce_metadata,
                                 start + nonce_metadata.mining_context.base_nonce,
                                 end + nonce_metadata.mining_context.base_nonce,
                                 timeout, proxy.mining_difficulty, 0)
    /\ hist' = NewHistory
    /\ mtime' = 0
    /\ work' = 0
    /\ UNCHANGED <<miner, proxy, call>>
    /\ UNCHANGED <<lvars, svars, ovars>>

\* the dict a search returns on a hit
SearchResult(s, candidate_hash, t) ==
    IF s.kind = "hsm"
    THEN [block_hash |-> candidate_hash,
          nonce |-> s.nonce,
          nonce_metadata |-> s.nonce_metadata,
          hashes_calculated |-> s.hashes_calculated + 1,
          mining_time |-> t - s.start_time,
          threat_score |-> s.nonce_metadata.trajectory_score.ratio]
    ELSE [block_hash |-> candidate_hash,
          nonce |-> s.nonce,
          nonce_metadata |-> s.nonce_metadata,
          mining_time |-> t - s.start_time]

\* one turn of the loop of _mine_targeted_range and of mine_with_range: the
\* range may be at its end, the clock may have reached the timeout, or the
\* next candidate is hashed
SearchStep ==
    /\ search.pc = "loop"
    /\ IF search.nonce >= search.end_nonce
       THEN /\ search' = [search EXCEPT !.pc = "done", !.result = NoResult]
            /\ UNCHANGED <<hist, work>>
       ELSE IF TimedOut(mtime - search.start_time, search.timeout)
       THEN /\ search' = [search EXCEPT !.pc = "done", !.result = NoResult]
            /\ hist' = [hist EXCEPT !.observed = TRUE]
            /\ UNCHANGED work
       ELSE /\ work < HashesPerTick
            /\ work' = work + 1
            /\ hist' = [hist EXCEPT
                          !.tried = Append(@, search.nonce),
                          !.observed = (mtime - search.start_time >= search.timeout)]
            /\ LET candidate_hash ==
                       _calculate_candidate_hash(search.nonce, search.nonce_metadata)
               IN  IF StartsWith(candidate_hash, search.target_prefix)
                   THEN search' = [search EXCEPT
                                     !.pc = "done",
                                     !.hashes_calculated = @ + 1,
                                     !.result = SearchResult(search, candidate_hash, mtime)]
                   ELSE search' = [search EXCEPT !.nonce = @ + 1,
                                                 !.hashes_calculated = @ + 1]
    /\ UNCHANGED <<miner, proxy, call, mtime>>
    /\ UNCHANGED <<lvars, svars, ovars>>

\* time.time() moves on while an operation runs
Tick ==
    /\ search.pc = "loop" \/ call.pc \in {"loop", "search"}
    /\ mtime < MaxTime
    /\ mtime' = mtime + 1
    /\ work' = 0
    /\ UNCHANGED <<miner, proxy, call, search, hist>>
    /\ UNCHANGED <<lvars, svars, ovars>>

\* one call of either search, with every argument of the bounded sets; a
\* call starts from the same state whatever ran before it
SearchNext ==
    \/ \E threat_data \in ThreatReports, token \in Tokens, range_size \in 0..MaxRange,
          timeout \in Timeouts :
          \E start_nonce \in {0, _calculate_base_nonce(threat_data,
                                     score(PyFloat(threat_data.courage),
                                           PyFloat(threat_data.dexterity),
                                           PyFloat(threat_data.clause_matter),
                                           PyFloat(threat_data.audacity), Unit))} :
             MineTargetedRangeBegin(threat_data, token, start_nonce, range_size, timeout)
    \/ \E threat_score \in {3500, 9000}, base_nonce \in {0, 7}, token \in Tokens,
          end \in 0..MaxRange, timeout \in Timeouts :
          MineWithRangeBegin(threat_score, base_nonce, token, 0, end, timeout)
    \/ SearchStep
    \/ Tick

\* a search runs on: its thread is scheduled and the clock moves
SpecSearch ==
    /\ InitMining
    /\ [][SearchNext]_vars
    /\ WF_vars(SearchStep)
    /\ WF_vars(Tick)

\* ---------------------------------------------- mine_with_hsm_targeting
\* mine_with_hsm_targeting(threat_reports, timeout) up to the head of its
\* loop; without reports it returns None at once
MineWithHsmTargetingBegin(threat_reports, timeout) ==
    /\ call.pc \in {"idle", "done"}
    /\ search.pc = "idle"
    /\ miner.mined_blocks < MaxMined
    /\ call' = [IdleCall EXCEPT
                  !.pc = IF threat_reports = <<>> THEN "done" ELSE "loop",
                  !.threat_reports = threat_reports,
                  !.timeout = timeout,
                  !.i = 1]
    /\ hist' = NewHistory
    /\ mtime' = 0
    /\ work' = 0
    /\ UNCHANGED <<miner, proxy, search>>
    /\ UNCHANGED <<lvars, svars, ovars>>

\* (variant: every search given the whole timeout of the call)
MineWithHsmTargetingNext_whole_timeout(token) ==
    /\ call.pc = "loop"
    /\ call.i <= Len(call.threat_reports)
    /\ ~TimedOut(mtime - call.start_time, call.timeout)
    /\ LET nonce_metadata ==
               generate_targeted_nonce(miner, call.threat_reports[call.i], mtime, token)
           start_nonce == nonce_metadata.base_nonce
           nonce_range == nonce_metadata.nonce_range
       IN  search' = SearchFrame("hsm", nonce_metadata, start_nonce,
                                 start_nonce + nonce_range[2],
                                 call.timeout,
                                 miner.difficulty, mtime)
    /\ call' = [call EXCEPT !.pc = "search"]
    /\ hist' = [hist EXCEPT !.tried = <<>>, !.observed = FALSE]
    /\ UNCHANGED <<miner, proxy, mtime, work>>
    /\ UNCHANGED <<lvars, svars, ovars>>
\* the loop takes the next report: generate_targeted_nonce, then
\* _mine_targeted_range with the time that is left
MineWithHsmTargetingNext(token) ==
    /\ call.pc = "loop"
    /\ call.i <= Len(call.threat_reports)
    /\ ~TimedOut(mtime - call.start_time, call.timeout)
    /\ LET nonce_metadata ==
               generate_targeted_nonce(miner, call.threat_reports[call.i], mtime, token)
           start_nonce == nonce_metadata.base_nonce
           nonce_range == nonce_metadata.nonce_range
       IN  search' = SearchFrame("hsm", nonce_metadata, start_nonce,
                                 start_nonce + nonce_range[2],
                                 call.timeout - (mtime - call.start_time),
                                 miner.difficulty, mtime)
    /\ call' = [call EXCEPT !.pc = "search"]
    /\ hist' = [hist EXCEPT !.tried = <<>>, !.observed = FALSE]
    /\ UNCHANGED <<miner, proxy, mtime, work>>
    /\ UNCHANGED <<lvars, svars, ovars>>

\* the search has returned: the block is kept when it beats the best so far
MineWithHsmTargetingCollect ==
    /\ call.pc = "search"
    /\ search.pc = "done"
    /\ LET block == search.result
       IN  /\ call' = IF block # NoResult /\ block.threat_score > call.best_threat_score
                      THEN [call EXCEPT !.pc = "loop", !.i = @ + 1,
                                        !.best_block = block,
                                        !.best_threat_score = block.threat_score]
                      ELSE [call EXCEPT !.pc = "loop", !.i = @ + 1]
           /\ hist' = [hist EXCEPT !.found = Append(@, block)]
    /\ search' = IdleSearch
    /\ UNCHANGED <<miner, proxy, mtime, work>>
    /\ UNCHANGED <<lvars, svars, ovars>>

\* (variant: the reward added to total_rewards alone)
MineWithHsmTargetingReturn_total_only ==
    /\ call.pc = "loop"
    /\ \/ call.i > Len(call.threat_reports)
       \/ TimedOut(mtime - call.start_time, call.timeout)
    /\ IF call.best_block # NoResult
       THEN LET reward == calculate_hsm_reward(miner, call.best_block.threat_score)
            IN  miner' = [miner EXCEPT !.mined_blocks = @ + 1,
                                       !.total_rewards = @ + reward]
       ELSE UNCHANGED miner
    /\ call' = [call EXCEPT !.pc = "done", !.result = call.best_block]
    /\ UNCHANGED <<proxy, search, hist, mtime, work>>
    /\ UNCHANGED <<lvars, svars, ovars>>
\* the loop is over, by the end of the list or by the timeout: the statistics
\* are updated when there is a best block, and best_block is returned
MineWithHsmTargetingReturn ==
    /\ call.pc = "loop"
    /\ \/ call.i > Len(call.threat_reports)
       \/ TimedOut(mtime - call.start_time, call.timeout)
    /\ IF call.best_block # NoResult
       THEN LET reward == calculate_hsm_reward(miner, call.best_block.threat_score)
            IN  miner' = [miner EXCEPT !.mined_blocks = @ + 1,
                                       !.total_rewards = @ + reward,
                                       !.threat_based_rewards = @ + reward]
       ELSE UNCHANGED miner
    /\ call' = [call EXCEPT !.pc = "done", !.result = call.best_block]
    /\ UNCHANGED <<proxy, search, hist, mtime, work>>
    /\ UNCHANGED <<lvars, svars, ovars>>

MineNext ==
    \/ \E threat_reports \in ReportLists, timeout \in Timeouts :
          MineWithHsmTargetingBegin(threat_reports, timeout)
    \/ \E token \in Tokens : MineWithHsmTargetingNext(token)
    \/ MineWithHsmTargetingCollect
    \/ MineWithHsmTargetingReturn
    \/ SearchStep
    \/ Tick

SpecMine == InitMining /\ [][MineNext]_vars

\* ------------------------------------------- the trajectory engines' runs
\* the honors an engine is constructed with: the default 1.0, within (0, 1],
\* and outside it
Honors == {-5000, 0, 3000, Unit, 2 * Unit}

\* the (courage, dexterity, clause_matter, audacity) a call is made with:
\* floats in and out of [0, 1], strings, None, NaN and the infinities
ScoreInputs ==
    {<<PyFloat(10000), PyFloat(0), PyFloat(0), PyFloat(0)>>,
     <<PyFloat(15000), PyFloat(-5000), PyFloat(5000), PyStr("0.5")>>,
     <<PyFloat(10000), PyFloat(10000), PyFloat(10000), PyFloat(0)>>,
     <<PyFloat(10000), PyFloat(10000), PyFloat(10000), PyFloat(10000)>>,
     <<PyNaN, PyInf(1), PyInf(-1), PyFloat(0)>>,
     <<PyStr("abc"), PyNone, PyFloat(8000), PyFloat(7000)>>}

InitScore ==
    /\ LedgerConstructed("HSM")
    /\ MinersConstructed(4)
    /\ \E which \in {"HSM", "TM"}, honor \in Honors : EngineConstructed(which, honor)

\* a call as the log keeps it
Outcome(op, args, r) ==
    IF r.raised # "" THEN [op |-> op, args |-> args, raised |-> r.raised]
    ELSE [op |-> op, args |-> args, raised |-> "", value |-> r.value]

\* HSM.py: tm.score(courage, dexterity, clause_matter, audacity)
Score(args) ==
    /\ tm.which = "HSM" /\ tm.made.raised = ""
    /\ Len(calls) < MaxCalls
    /\ calls' = Append(calls,
                   Outcome("score", args,
                       Returned(score(args[1], args[2], args[3], args[4],
                                      tm.made.value.honor))))
    /\ UNCHANGED tm
    /\ UNCHANGED <<lvars, mvars, ovars>>

\* CME.py: self._calculate_nonce_range(trajectory) on a score that was returned
CalculateNonceRange(i) ==
    /\ Len(calls) < MaxCalls
    /\ calls[i].op = "score"
    /\ \A k \in 1..Len(calls) :
          calls[k].op = "_calculate_nonce_range" => calls[k].args # <<calls[i].value>>
    /\ calls' = Append(calls,
                   Outcome("_calculate_nonce_range", <<calls[i].value>>,
                       Returned(_calculate_nonce_range(calls[i].value))))
    /\ UNCHANGED tm
    /\ UNCHANGED <<lvars, mvars, ovars>>

\* TM.py: tm.update(courage, dexterity, clause_matter, audacity)
TmUpdate(args) ==
    /\ tm.which = "TM" /\ tm.made.raised = ""
    /\ Len(calls) < MaxCalls
    /\ LET r == tm_update(tm.made.value, args[1], args[2], args[3], args[4])
       IN  /\ tm' = [tm EXCEPT !.made.value = r.self]
           /\ calls' = Append(calls, Outcome("update", args, r))
    /\ UNCHANGED <<lvars, mvars, ovars>>

\* TM.py: tm.report()
TmReport ==
    /\ tm.which = "TM" /\ tm.made.raised = ""
    /\ Len(calls) < MaxCalls
    /\ LET r == tm_report(tm.made.value)
       IN  /\ tm' = [tm EXCEPT !.made.value = r.self]
           /\ calls' = Append(calls, Outcome("report", <<>>, r))
    /\ UNCHANGED <<lvars, mvars, ovars>>

ScoreNext ==
    \/ \E args \in ScoreInputs : Score(args)
    \/ \E i \in 1..Len(calls) : CalculateNonceRange(i)
    \/ \E args \in ScoreInputs : TmUpdate(args)
    \/ TmReport

SpecScore == InitScore /\ [][ScoreNext]_vars

\* ------------------------------------------------- the targets of reports
\* where a report is from: nowhere given, or lat and lon in millionths of a
\* degree
Locations ==
    {[given |-> FALSE],
     [given |-> TRUE, lat |-> 40712800, lon |-> -74006000],
     [given |-> TRUE, lat |-> -33868800, lon |-> 151209300]}

\* the reports of ThreatReports, each from each of these places
TargetReports ==
    {IF l.given
     THEN [id |-> r.id, courage |-> r.courage, dexterity |-> r.dexterity,
           clause_matter |-> r.clause_matter, audacity |-> r.audacity,
           lat |-> l.lat, lon |-> l.lon]
     ELSE r : r \in ThreatReports, l \in Locations}

InitTarget ==
    /\ LedgerConstructed("HSM")
    /\ \E d \in Difficulties : MinersConstructed(d)
    /\ EngineConstructed("HSM", Unit)

\* CME.py: self.generate_targeted_nonce(threat_data)
GenerateTargetedNonce(threat_data, token) ==
    /\ Len(calls) < MaxTargets
    /\ calls' = Append(calls,
                   Outcome("generate_targeted_nonce", <<threat_data>>,
                       Returned(generate_targeted_nonce(miner, threat_data, 0, token))))
    /\ UNCHANGED tm
    /\ UNCHANGED <<lvars, mvars, ovars>>

TargetNext == \E threat_data \in TargetReports, token \in Tokens :
                  GenerateTargetedNonce(threat_data, token)

SpecTarget == InitTarget /\ [][TargetNext]_vars

\* ------------------------------------------------------------ the rewards
\* the base rewards a miner is constructed with: the default, none, and a
\* negative one
BaseRewards == {-base_reward, 0, base_reward}

\* the scores a reward is asked for: each side of each tier's threshold
RewardScores == {5900, 6000, 6900, 7000, 7900, 8000, 8900, 9000}

\* the threat levels: those of the table and one that is not in it
ThreatLevels == {"CRITICAL", "HIGH", "MEDIUM", "LOW", "SEVERE"}

\* HSMEnhancedMiner(difficulty, base_reward),
\* HSMProxyUtilizationMiner(mining_difficulty) and nothing running
MinersConstructedWith(difficulty, reward) ==
    /\ miner = [difficulty |-> difficulty, base_reward |-> reward, mined_blocks |-> 0,
                total_rewards |-> 0, threat_based_rewards |-> 0]
    /\ proxy = [mining_difficulty |-> difficulty]
    /\ call = IdleCall
    /\ search = IdleSearch
    /\ hist = NewHistory
    /\ mtime = 0
    /\ work = 0
    /\ NothingRunning

\* the miners constructed with some base reward
InitReward ==
    /\ LedgerConstructed("HSM")
    /\ EngineConstructed("HSM", Unit)
    /\ \E d \in Difficulties, b \in BaseRewards : MinersConstructedWith(d, b)

\* CME.py: miner.calculate_mining_reward(nwi_score, threat_level)
CalculateMiningReward(nwi_score, threat_level) ==
    /\ Len(calls) < MaxTargets
    /\ calls' = Append(calls,
                   Outcome("calculate_mining_reward", <<nwi_score, threat_level>>,
                       Returned(calculate_mining_reward(miner, nwi_score, threat_level))))
    /\ UNCHANGED tm
    /\ UNCHANGED <<lvars, mvars, ovars>>

RewardNext == \E nwi_score \in RewardScores, threat_level \in ThreatLevels :
                  CalculateMiningReward(nwi_score, threat_level)

SpecReward == InitReward /\ [][RewardNext]_vars

\* mine_with_hsm_targeting by a miner constructed with some base reward
SpecCredit == InitReward /\ [][MineNext]_vars

\* ------------------------------------------- searches of any difficulty
\* the difficulties a search is asked for: a negative one and none as well
AnyDifficulties == {-1, 0, 1}

InitDifficulty ==
    /\ LedgerConstructed("HSM")
    /\ EngineConstructed("HSM", Unit)
    /\ \E d \in AnyDifficulties : MinersConstructedWith(d, base_reward)

\* the two searches of the miners, and mine_block of the ledger
DifficultyNext ==
    \/ \E threat_data \in ThreatReports :
          MineTargetedRangeBegin(threat_data, 0, 0, MaxRange, MaxTime)
    \/ MineWithRangeBegin(3500, 0, 0, 0, MaxRange, MaxTime)
    \/ SearchStep
    \/ Tick
    \/ \E r \in ReportInputs : AddNwiReport(r)
    \/ \E d \in AnyDifficulties : MineBlockBegin(1, d)
    \/ MineBlockTry(1)
    \/ MineBlockAdd(1)

SpecDifficulty == InitDifficulty /\ [][DifficultyNext]_vars

\* ------------------------------------- CME.py the continuous mining loop
\* the reward of one pool transaction in mine_nwi_block
RewardOfTx(self, tx) ==
    IF tx.type = "nwi_report"
    THEN calculate_mining_reward(self, tx.report_data.ratio,
             IF tx.report_data.ratio >= 8000 THEN "HIGH" ELSE "MEDIUM")
    ELSE 0

RECURSIVE TotalReward(_, _)
TotalReward(self, transactions) ==
    IF transactions = <<>> THEN 0
    ELSE RewardOfTx(self, Head(transactions)) + TotalReward(self, Tail(transactions))

\* mine_nwi_block, on a hit: the reward transaction appended, mining_data
\* set, block_hash recalculated
MinedBlock(self, candidate_block, transactions, ts) ==
    LET total_reward == TotalReward(self, transactions)
        reward_tx == [tx_id |-> "REWARD-" \o ToString(ts),
                      type |-> "mining_reward",
                      timestamp |-> ts,
                      reward_amount |-> total_reward,
                      block_hash |-> candidate_block.block_hash,
                      transactions_mined |-> Len(transactions)]
        block == [index |-> candidate_block.index,
                  timestamp |-> candidate_block.timestamp,
                  transactions |-> Append(transactions, reward_tx),
                  previous_hash |-> candidate_block.previous_hash,
                  nonce |-> candidate_block.nonce,
                  merkle_root |-> candidate_block.merkle_root,
                  block_hash |-> candidate_block.block_hash,
                  network |-> candidate_block.network,
                  version |-> candidate_block.version,
                  mining_data |-> [difficulty |-> self.difficulty,
                                   total_rewards |-> total_reward]]
    IN  [block |-> [block EXCEPT !.block_hash = _calculate_block_hash(block)],
         total_reward |-> total_reward]

\* mine_nwi_block(transactions, timeout): candidates from nonce on, until one
\* meets the difficulty or the timeout (MaxNonce candidates) is over: None
RECURSIVE mine_nwi_block(_, _, _, _, _)
mine_nwi_block(self, file, transactions, n, ts) ==
    IF n > MaxNonce THEN [block |-> NoBlock, total_reward |-> 0]
    ELSE LET candidate_block ==
                 _create_block(file, PreviousHashOf(_get_last_block(file)),
                               transactions, n, ts + n)
         IN  IF MeetsDifficulty(candidate_block.block_hash, self.difficulty)
             THEN MinedBlock(self, candidate_block, transactions, ts + n)
             ELSE mine_nwi_block(self, file, transactions, n + 1, ts)

\* start_continuous_mining(transaction_pool): mining_active set, the thread
\* of mining_loop started
StartContinuousMining ==
    /\ loop.pc = "none"
    /\ loop' = [loop EXCEPT !.pc = "head", !.mining_active = TRUE]
    /\ UNCHANGED <<util, mgr, app>>
    /\ UNCHANGED <<lvars, mvars, svars>>

\* the owner of transaction_pool puts a transaction into it
PoolAppend(r) ==
    /\ Len(loop.transaction_pool) < MaxPending
    /\ loop' = [loop EXCEPT
                    !.transaction_pool = Append(@, create_nwi_transaction(r.id, r.ratio, now)),
                    !.put = @ \cup {create_nwi_transaction(r.id, r.ratio, now)}]
    /\ now' = now + 1
    /\ UNCHANGED <<impl, built, chain, pending, pc, prev, nonce, diff, cand, ret, report,
                   tampered>>
    /\ UNCHANGED <<util, mgr, app>>
    /\ UNCHANGED <<mvars, svars>>

\* one cycle of mining_loop, from the test of mining_active to time.sleep;
\* written: whether the write of _add_block to the chain file succeeds. An
\* exception leaves mining_loop, and the thread with it.
MiningLoopCycle(written) ==
    /\ loop.pc = "head"
    /\ loop.cycles < MaxCycles
    /\ Len(chain) < MaxChain
    /\ IF ~loop.mining_active
       THEN /\ loop' = [loop EXCEPT !.pc = "returned"]
            /\ UNCHANGED <<chain, now, miner>>
       ELSE IF Len(loop.transaction_pool) >= 1
       THEN LET mined == mine_nwi_block(miner, chain, loop.transaction_pool, 0, now)
            IN  IF mined.block # NoBlock
                THEN /\ miner' = [miner EXCEPT
                                    !.mined_blocks = @ + 1,
                                    !.total_rewards = @ + mined.total_reward]
                     /\ now' = now + mined.block.nonce + 1
                     /\ IF written
                        THEN /\ chain' = _add_block(chain, mined.block)
                             /\ loop' = [loop EXCEPT !.pc = "sleep",
                                                     !.transaction_pool = <<>>,
                                                     !.cycles = @ + 1]
                        ELSE /\ loop' = [loop EXCEPT !.pc = "died",
                                                     !.raised = "OSError",
                                                     !.cycles = @ + 1]
                             /\ UNCHANGED chain
                ELSE /\ loop' = [loop EXCEPT !.pc = "sleep", !.cycles = @ + 1]
                     /\ now' = now + MaxNonce + 1
                     /\ UNCHANGED <<chain, miner>>
       ELSE /\ loop' = [loop EXCEPT !.pc = "sleep", !.cycles = @ + 1]
            /\ UNCHANGED <<chain, now, miner>>
    /\ UNCHANGED <<impl, built, pending, pc, prev, nonce, diff, cand, ret, report, tampered>>
    /\ UNCHANGED <<proxy, call, search, hist, mtime, work>>
    /\ UNCHANGED <<util, mgr, app>>
    /\ UNCHANGED svars

\* time.sleep(check_interval) returns
MiningLoopWake ==
    /\ loop.pc = "sleep"
    /\ loop' = [loop EXCEPT !.pc = "head"]
    /\ UNCHANGED <<util, mgr, app>>
    /\ UNCHANGED <<lvars, mvars, svars>>

\* stop_mining()
StopMining ==
    /\ loop.mining_active
    /\ loop' = [loop EXCEPT !.mining_active = FALSE]
    /\ UNCHANGED <<util, mgr, app>>
    /\ UNCHANGED <<lvars, mvars, svars>>

LoopNext ==
    \/ StartContinuousMining
    \/ \E r \in ReportInputs : PoolAppend(r)
    \/ \E written \in BOOLEAN : MiningLoopCycle(written)
    \/ MiningLoopWake
    \/ StopMining

\* the mining thread beside the owner of the pool; the thread is scheduled
\* and its sleep ends
SpecLoop ==
    /\ InitMining
    /\ [][LoopNext]_vars
    /\ WF_vars(\E written \in BOOLEAN : MiningLoopCycle(written))
    /\ WF_vars(MiningLoopWake)

\* the same cycle in the two steps another thread can come between: first
\* the test of mining_active and of the pool, and mine_nwi_block over
\* transaction_pool.copy() ...
MiningLoopMine ==
    /\ loop.pc = "head"
    /\ loop.cycles < MaxCycles
    /\ Len(chain) < MaxChain
    /\ IF ~loop.mining_active
       THEN /\ loop' = [loop EXCEPT !.pc = "returned"]
            /\ UNCHANGED <<now, miner>>
       ELSE IF Len(loop.transaction_pool) >= 1
       THEN /\ \E mined \in {mine_nwi_block(miner, chain, loop.transaction_pool, 0, now)} :
                  IF mined.block # NoBlock
                  THEN /\ miner' = [miner EXCEPT
                                      !.mined_blocks = @ + 1,
                                      !.total_rewards = @ + mined.total_reward]
                       /\ now' = now + mined.block.nonce + 1
                       /\ loop' = [loop EXCEPT !.pc = "mined", !.block = mined.block]
                  ELSE /\ loop' = [loop EXCEPT !.pc = "sleep", !.cycles = @ + 1]
                       /\ now' = now + MaxNonce + 1
                       /\ UNCHANGED miner
       ELSE /\ loop' = [loop EXCEPT !.pc = "sleep", !.cycles = @ + 1]
            /\ UNCHANGED <<now, miner>>
    /\ UNCHANGED <<impl, built, chain, pending, pc, prev, nonce, diff, cand, ret, report,
                   tampered>>
    /\ UNCHANGED <<proxy, call, search, hist, mtime, work>>
    /\ UNCHANGED <<util, mgr, app>>
    /\ UNCHANGED svars

\* transaction_pool.clear()
transaction_pool_clear(transaction_pool) == <<>>

\* ... then, with a block: _add_block(block) and transaction_pool.clear()
MiningLoopAppend(written) ==
    /\ loop.pc = "mined"
    /\ IF written
       THEN /\ chain' = _add_block(chain, loop.block)
            /\ loop' = [loop EXCEPT
                           !.pc = "sleep",
                           !.transaction_pool = transaction_pool_clear(@),
                           !.block = NoBlock,
                           !.cycles = @ + 1]
       ELSE /\ loop' = [loop EXCEPT !.pc = "died", !.raised = "OSError",
                                    !.block = NoBlock, !.cycles = @ + 1]
            /\ UNCHANGED chain
    /\ UNCHANGED <<impl, built, pending, now, pc, prev, nonce, diff, cand, ret, report,
                   tampered>>
    /\ UNCHANGED <<util, mgr, app>>
    /\ UNCHANGED <<mvars, svars>>

PoolNext ==
    \/ StartContinuousMining
    \/ \E r \in ReportInputs : PoolAppend(r)
    \/ MiningLoopMine
    \/ \E written \in BOOLEAN : MiningLoopAppend(written)
    \/ MiningLoopWake
    \/ StopMining

\* the mining thread and the owner of the pool, the steps of the two interleaved
SpecPool == InitMining /\ [][PoolNext]_vars

\* --------------------------------------------- HSM.py IncidentManager
\* report.get(key, default)
ReportGet(report_in, key, default) ==
    IF key \in DOMAIN report_in THEN report_in[key] ELSE default

\* lo <= v <= hi of Python, v a float: False for nan and for the infinities
Between(lo, v, hi) == v.type = "float" /\ lo <= v.value /\ v.value <= hi

\* the check of one coordinate in validate_report: "" when it passes
ValidateCoordinate(v, limit, name) ==
    IF v.type = "NoneType" THEN ""
    ELSE LET f == float(v)
         IN  IF f.raised # "" THEN "Invalid coordinate format"
             ELSE IF ~Between(-limit, f.value, limit)
                  THEN name \o " must be between -" \o ToString(limit \div Unit)
                           \o " and " \o ToString(limit \div Unit)
             ELSE ""

\* the check of one score field in validate_report: "" when it passes
ValidateScore(report_in, field) ==
    IF field \notin DOMAIN report_in THEN ""
    ELSE LET f == float(report_in[field])
         IN  IF f.raised # "" THEN "Invalid " \o field \o " value"
             ELSE IF ~Between(0, f.value, Unit) THEN field \o " must be between 0 and 1"
             ELSE ""

score_fields == <<"courage", "dexterity", "clause_matter", "audacity">>

\* the first failure of the loop over score_fields[k..], "" when none fails
RECURSIVE ValidateScores(_, _)
ValidateScores(report_in, k) ==
    IF k > Len(score_fields) THEN ""
    ELSE IF ValidateScore(report_in, score_fields[k]) # ""
         THEN ValidateScore(report_in, score_fields[k])
    ELSE ValidateScores(report_in, k + 1)

\* (variant: the score fields are not looked at)
validate_report_scores_unchecked(report_in) ==
    IF "text" \notin DOMAIN report_in THEN <<FALSE, "Missing required field: text">>
    ELSE LET lat == ValidateCoordinate(ReportGet(report_in, "lat", PyNone), 90 * Unit,
                                       "Latitude")
             lon == ValidateCoordinate(ReportGet(report_in, "lon", PyNone), 180 * Unit,
                                       "Longitude")
         IN  IF lat # "" THEN <<FALSE, lat>>
             ELSE IF lon # "" THEN <<FALSE, lon>>
             ELSE <<TRUE, "Valid">>
\* validate_report: (is_valid, validation_msg)
validate_report(report_in) ==
    IF "text" \notin DOMAIN report_in THEN <<FALSE, "Missing required field: text">>
    ELSE LET lat == ValidateCoordinate(ReportGet(report_in, "lat", PyNone), 90 * Unit,
                                       "Latitude")
             lon == ValidateCoordinate(ReportGet(report_in, "lon", PyNone), 180 * Unit,
                                       "Longitude")
             scores == ValidateScores(report_in, 1)
         IN  IF lat # "" THEN <<FALSE, lat>>
             ELSE IF lon # "" THEN <<FALSE, lon>>
             ELSE IF scores # "" THEN <<FALSE, scores>>
             ELSE <<TRUE, "Valid">>

\* json.dumps(record) as append_ledger hashes it
json_dumps_record(record) ==
    Preimage("{id:" \o record.id \o ",received_at:" \o ToString(record.received_at)
                 \o ",score:{phase:" \o record.score.phase \o ",ratio:"
                 \o ToString(record.score.ratio) \o "}}",
             <<record.received_at, record.score.ratio>>)

\* append_ledger(record): the entry written to the ledger file
LedgerEntry(record, record_hash, ts) == [ts |-> ts, hash |-> record_hash, record |-> record]

\* _create_incident(record), created at ts
_create_incident(record, ts) ==
    [incident_id |-> "INC-" \o ToString(ts) \o "-" \o record.id,
     created_at |-> ts,
     priority |-> IF record.score.ratio >= 9500 THEN "HIGH" ELSE "MEDIUM",
     evidence_hash |-> record.ledger_hash,
     record_ref |-> record.id,
     lat |-> record.lat,
     lon |-> record.lon,
     score |-> record.score]

\* _send_alert(record, incident): with a webhook, the payload is posted and
\* what came of it (status_code) goes to the ledger; without one, nothing
_send_alert(self, record, incident, status_code, ts) ==
    IF self.webhook
    THEN [self EXCEPT
            !.posted = Append(@, [incident_id |-> incident.incident_id,
                                  priority |-> incident.priority,
                                  score |-> incident.score,
                                  evidence_hash |-> incident.evidence_hash]),
            !.ledger = Append(@, [ts |-> ts,
                                  record |-> [alert_sent |-> status_code = 200,
                                              status_code |-> status_code,
                                              incident_id |-> incident.incident_id]])]
    ELSE self

\* ingest_report: the record built of the report, its score in it
NewRecord(report_in, ts) ==
    [id |-> report_in.id,
     received_at |-> ts,
     lat |-> ReportGet(report_in, "lat", PyNone),
     lon |-> ReportGet(report_in, "lon", PyNone),
     score |-> score(ReportGet(report_in, "courage", PyFloat(0)),
                     ReportGet(report_in, "dexterity", PyFloat(0)),
                     ReportGet(report_in, "clause_matter", PyFloat(0)),
                     ReportGet(report_in, "audacity", PyFloat(0)), Unit)]

\* record["ledger_hash"] = record_hash
WithLedgerHash(record, record_hash) ==
    [id |-> record.id, received_at |-> record.received_at, lat |-> record.lat,
     lon |-> record.lon, score |-> record.score, ledger_hash |-> record_hash]

\* ingest_report after the ledger append: the incident and the alert when
\* the ratio is on or over the threshold, the line of the incidents file,
\* and the record returned (its id, hash and incident)
IngestAppended(self, record, status_code, ts) ==
    IF record.score.ratio >= self.threshold
    THEN LET incident == _create_incident(record, ts)
             entry == [id |-> record.id, ledger_hash |-> record.ledger_hash,
                       incident_id |-> incident.incident_id]
         IN  [raised |-> "",
              value |-> entry,
              self |-> [_send_alert([self EXCEPT !.incident_files = Append(@, incident)],
                                    record, incident, status_code, ts)
                           EXCEPT !.incidents_file = Append(@, entry)]]
    ELSE [raised |-> "",
          value |-> [id |-> record.id, ledger_hash |-> record.ledger_hash,
                     incident_id |-> ""],
          self |-> [self EXCEPT !.incidents_file =
                                   Append(@, [id |-> record.id,
                                              ledger_hash |-> record.ledger_hash,
                                              incident_id |-> ""])]]

\* ingest_report from append_ledger(record) on
IngestRecord(self, record, record_hash, status_code, ts) ==
    IngestAppended([self EXCEPT !.ledger = Append(@, LedgerEntry(record, record_hash, ts))],
                   WithLedgerHash(record, record_hash), status_code, ts)

\* ingest_report(report) at time ts: the ValueError, or the record returned,
\* and the manager with its files after the call
ingest_report(self, report_in, status_code, ts) ==
    IF ~validate_report(report_in)[1]
    THEN [raised |-> "ValueError", self |-> self]
    ELSE IngestRecord(self, NewRecord(report_in, ts),
                      sha256(json_dumps_record(NewRecord(report_in, ts))),
                      status_code, ts)

\* the reports handed in: valid ones below, on and above the threshold of
\* 0.8, and ones with a malformed or out-of-range score field or coordinate
IngestReports ==
    {[id |-> "low", text |-> PyStr("a"), courage |-> PyFloat(5000),
      dexterity |-> PyFloat(5000), clause_matter |-> PyFloat(5000),
      audacity |-> PyFloat(5000)],
     [id |-> "on", text |-> PyStr("a"), courage |-> PyFloat(8000),
      dexterity |-> PyStr("0.8"), clause_matter |-> PyFloat(8000),
      audacity |-> PyFloat(8000), lat |-> PyFloat(90 * Unit), lon |-> PyNone],
     [id |-> "high", text |-> PyStr("a"), courage |-> PyFloat(Unit),
      dexterity |-> PyFloat(Unit), clause_matter |-> PyFloat(Unit),
      audacity |-> PyFloat(9000), lat |-> PyFloat(407128), lon |-> PyFloat(-740060)],
     [id |-> "none", text |-> PyStr("a")],
     [id |-> "over", text |-> PyStr("a"), courage |-> PyFloat(15000),
      dexterity |-> PyFloat(Unit), clause_matter |-> PyFloat(Unit),
      audacity |-> PyFloat(Unit)],
     [id |-> "word", text |-> PyStr("a"), courage |-> PyFloat(Unit),
      dexterity |-> PyFloat(Unit), clause_matter |-> PyStr("high"),
      audacity |-> PyFloat(Unit)],
     [id |-> "nan", text |-> PyStr("a"), courage |-> PyFloat(Unit),
      dexterity |-> PyFloat(Unit), clause_matter |-> PyFloat(Unit),
      audacity |-> PyNaN],
     [id |-> "null", text |-> PyStr("a"), courage |-> PyNone,
      dexterity |-> PyFloat(Unit), clause_matter |-> PyFloat(Unit),
      audacity |-> PyFloat(Unit)],
     [id |-> "north", text |-> PyStr("a"), courage |-> PyFloat(Unit),
      dexterity |-> PyFloat(Unit), clause_matter |-> PyFloat(Unit),
      audacity |-> PyFloat(Unit), lat |-> PyFloat(91 * Unit), lon |-> PyFloat(0)],
     [id |-> "east", text |-> PyStr("a"), courage |-> PyFloat(Unit),
      dexterity |-> PyFloat(Unit), clause_matter |-> PyFloat(Unit),
      audacity |-> PyFloat(Unit), lat |-> PyFloat(0), lon |-> PyStr("east")]}

\* the batches of a JSON file: lists of different reports
Batches ==
    {b \in UNION {[1..n -> IngestReports] : n \in 0..MaxBatch} :
        \A j, k \in 1..Len(b) : j # k => b[j].id # b[k].id}

\* the ledger directory empty, a manager of some threshold, with or without
\* a webhook
InitIngest ==
    /\ LedgerConstructed("HSM")
    /\ EngineConstructed("HSM", Unit)
    /\ miner = [difficulty |-> 4, base_reward |-> base_reward, mined_blocks |-> 0,
                total_rewards |-> 0, threat_based_rewards |-> 0]
    /\ proxy = [mining_difficulty |-> 4]
    /\ call = IdleCall
    /\ search = IdleSearch
    /\ hist = NewHistory
    /\ mtime = 0
    /\ work = 0
    /\ loop = IdleLoop
    /\ app = IdleAppenders
    /\ util = IdleUtilization
    /\ \E threshold \in {5000, SCORE_THRESHOLD}, webhook \in BOOLEAN :
          mgr = IncidentManager(threshold, webhook, NoFiles)

\* example_cli_ingest(json_file), up to the loop over the reports: a manager
\* with the default threshold over the ledger directory as it is
ExampleCliIngest(reports) ==
    /\ mgr.reports = <<>>
    /\ mgr' = [IncidentManager(mgr.threshold, mgr.webhook, mgr) EXCEPT
                  !.reports = reports]
    /\ UNCHANGED <<loop, app, util>>
    /\ UNCHANGED <<lvars, mvars, svars>>

\* one turn of the loop of example_cli_ingest: ingest_report in a try, what
\* it returned or raised printed
IngestStep(status_code) ==
    /\ mgr.i < Len(mgr.reports)
    /\ LET r == ingest_report(mgr, mgr.reports[mgr.i + 1], status_code, now)
       IN  mgr' = [r.self EXCEPT
                     !.i = @ + 1,
                     !.printed = Append(@, IF r.raised # "" THEN "Error processing report"
                                           ELSE "Processed report")]
    /\ now' = now + 1
    /\ UNCHANGED <<impl, built, chain, pending, pc, prev, nonce, diff, cand, ret, report,
                   tampered>>
    /\ UNCHANGED <<loop, app, util>>
    /\ UNCHANGED <<mvars, svars>>

IngestNext ==
    \/ \E reports \in Batches : ExampleCliIngest(reports)
    \/ \E status_code \in {200, 500} : IngestStep(status_code)

SpecIngest == InitIngest /\ [][IngestNext]_vars

\* ------------------------------------------------- HSM.py append_ledger
\* the records threads hand to append_ledger
AppendRecords ==
    {[id |-> r.id, received_at |-> 0,
      score |-> [phase |-> _phase_name(r.ratio), ratio |-> r.ratio]] : r \in ReportInputs}

\* append_ledger(record) in thread t, up to "with lock": the entry is built
\* and lock = threading.Lock() makes a lock of this call's own
AppendLedgerBegin(t, record) ==
    /\ app.pc[t] = "idle"
    /\ app.made < MaxAppends
    /\ app' = [app EXCEPT
                  !.pc[t] = "lock",
                  !.entry[t] = <<LedgerEntry(record, sha256(json_dumps_record(record)), now)>>,
                  !.made = @ + 1,
                  !.lock[t] = app.made + 1]
    /\ now' = now + 1
    /\ UNCHANGED <<impl, built, chain, pending, pc, prev, nonce, diff, cand, ret, report,
                   tampered>>
    /\ UNCHANGED <<loop, mgr, util>>
    /\ UNCHANGED <<mvars, svars>>

\* with lock: the thread waits until the lock it names is free, and takes it
AppendLedgerAcquire(t) ==
    /\ app.pc[t] = "lock"
    /\ app.lock[t] \notin app.locked
    /\ app' = [app EXCEPT !.pc[t] = "open", !.locked = @ \cup {app.lock[t]}]
    /\ UNCHANGED <<loop, mgr, util>>
    /\ UNCHANGED <<lvars, mvars, svars>>

\* open(fname, "a") and f.write(entry) inside the with
AppendLedgerWrite(t) ==
    /\ app.pc[t] = "open"
    /\ app' = [app EXCEPT !.pc[t] = "written", !.file = @ \o app.entry[t]]
    /\ UNCHANGED <<loop, mgr, util>>
    /\ UNCHANGED <<lvars, mvars, svars>>

\* the with is left: the lock is released, record_hash returned
AppendLedgerReturn(t) ==
    /\ app.pc[t] = "written"
    /\ app' = [app EXCEPT !.pc[t] = "idle", !.entry[t] = <<>>, !.lock[t] = 0,
                          !.locked = @ \ {app.lock[t]}]
    /\ UNCHANGED <<loop, mgr, util>>
    /\ UNCHANGED <<lvars, mvars, svars>>

AppendNext ==
    \E t \in Writers :
        \/ \E record \in AppendRecords : AppendLedgerBegin(t, record)
        \/ AppendLedgerAcquire(t)
        \/ AppendLedgerWrite(t)
        \/ AppendLedgerReturn(t)

\* threads calling append_ledger at the same time
SpecAppend == InitMining /\ [][AppendNext]_vars

\* ------------------------- proxy.py mining beside the metrics thread
\* the strategy update_mining_intensity selects for a system load
StrategyFor(system_load) ==
    IF 10 * system_load < 3 * Unit THEN "aggressive"
    ELSE IF 10 * system_load < 6 * Unit THEN "balanced"
    ELSE IF 10 * system_load < 8 * Unit THEN "high_utilization"
    ELSE "low_utilization"

\* max(2, min(5, int(3 + (2 * (1 - self.mining_intensity)))))
DifficultyFor(mining_intensity) ==
    Max(2, Min(5, 3 + (2 * (Unit - mining_intensity)) \div Unit))

\* (variant: the new intensity taken without its floor of 0.1)
UpdateMiningIntensity_without_floor(system_load) ==
    /\ util.updates < MaxUpdates
    /\ LET new_intensity == Unit - system_load
           mining_intensity == (7 * util.mining_intensity + 3 * new_intensity) \div 10
       IN  /\ util' = [util EXCEPT !.mining_intensity = mining_intensity,
                                   !.current_strategy = StrategyFor(system_load),
                                   !.updates = @ + 1]
           /\ proxy' = [proxy EXCEPT !.mining_difficulty = DifficultyFor(mining_intensity)]
    /\ UNCHANGED <<miner, call, search, hist, mtime, work>>
    /\ UNCHANGED <<loop, mgr, app>>
    /\ UNCHANGED <<lvars, svars>>
\* update_mining_intensity() in the metrics thread, the pressures of
\* collect_system_metrics coming to system_load; the new intensity to the
\* 1e-4 below
UpdateMiningIntensity(system_load) ==
    /\ util.updates < MaxUpdates
    /\ LET new_intensity == Max(Unit \div 10, Unit - system_load)
           mining_intensity == (7 * util.mining_intensity + 3 * new_intensity) \div 10
       IN  /\ util' = [util EXCEPT !.mining_intensity = mining_intensity,
                                   !.current_strategy = StrategyFor(system_load),
                                   !.updates = @ + 1]
           /\ proxy' = [proxy EXCEPT !.mining_difficulty = DifficultyFor(mining_intensity)]
    /\ UNCHANGED <<miner, call, search, hist, mtime, work>>
    /\ UNCHANGED <<loop, mgr, app>>
    /\ UNCHANGED <<lvars, svars>>

\* int(1000000 * self.mining_intensity), the modulus of calculate_utilization_nonce
UtilizationModulus(mining_intensity) == (1000000 \div Unit) * mining_intensity

\* the nonce range and timeout of a strategy, in the scale of the model:
\* high_utilization has the shortest range, the others up to MaxRange
StrategyRange(mining_strategy) ==
    IF mining_strategy = "high_utilization" THEN <<MaxRange - 1, MaxTime - 1>>
    ELSE <<MaxRange, MaxTime>>

\* calculate_utilization_reward(threat_score, mining_result)
calculate_utilization_reward(self, threat_score) ==
    LET strategy_bonus ==
            CASE self.current_strategy = "low_utilization" -> 10
              [] self.current_strategy = "high_utilization" -> 15
              [] self.current_strategy = "balanced" -> 12
              [] self.current_strategy = "aggressive" -> 11
              [] OTHER -> 10
        by_threat == (base_reward \div Unit) * (Unit + 3 * threat_score)
        by_utilization == ((by_threat \div Unit) * (3 * Unit - self.mining_intensity)) \div 2
    IN  (by_utilization \div 10) * strategy_bonus

\* mine_with_utilization_awareness, up to the call of the strategy: the
\* attempt counted, the strategy looked up, the nonce metadata generated
MineWithUtilizationAwarenessBegin(threat_score, base_nonce, token) ==
    /\ util.pc = "idle"
    /\ util.mining_attempts = 0
    /\ search.pc = "idle"
    /\ util' = [util EXCEPT
                   !.pc = "generated",
                   !.mining_attempts = @ + 1,
                   !.mining_strategy = util.current_strategy,
                   !.threat_score = threat_score,
                   !.nonce_metadata =
                       generate_utilization_aware_nonce(proxy, threat_score,
                                                        base_nonce, 0, token)]
    /\ UNCHANGED mvars
    /\ UNCHANGED <<loop, mgr, app>>
    /\ UNCHANGED <<lvars, svars>>

\* the strategy runs: mine_with_range(nonce_metadata, 0, end, timeout), up to
\* the head of its loop
MineWithUtilizationAwarenessMine ==
    /\ util.pc = "generated"
    /\ LET base_nonce == util.nonce_metadata.mining_context.base_nonce
           range == StrategyRange(util.mining_strategy)
       IN  search' = SearchFrame("proxy", util.nonce_metadata, base_nonce,
                                 range[1] + base_nonce, range[2],
                                 proxy.mining_difficulty, 0)
    /\ hist' = NewHistory
    /\ mtime' = 0
    /\ work' = 0
    /\ util' = [util EXCEPT !.pc = "mining"]
    /\ UNCHANGED <<miner, proxy, call>>
    /\ UNCHANGED <<loop, mgr, app>>
    /\ UNCHANGED <<lvars, svars>>

\* the strategy has returned: a result is counted and rewarded, and returned
MineWithUtilizationAwarenessReturn ==
    /\ util.pc = "mining"
    /\ search.pc = "done"
    /\ IF search.result # NoResult
       THEN util' = [util EXCEPT
                       !.pc = "idle",
                       !.mining_successes = @ + 1,
                       !.total_rewards =
                           @ + calculate_utilization_reward(util, util.threat_score),
                       !.mining_result = search.result]
       ELSE util' = [util EXCEPT !.pc = "idle", !.mining_result = NoResult]
    /\ search' = IdleSearch
    /\ UNCHANGED <<miner, proxy, call, hist, mtime, work>>
    /\ UNCHANGED <<loop, mgr, app>>
    /\ UNCHANGED <<lvars, svars>>

\* what the requests bring: threat scores, and the base nonces that
\* calculate_utilization_nonce makes of method, host and path
UtilizationNonces == {0, 1, 7}

IntensityNext ==
    \/ \E system_load \in {0, Unit} : UpdateMiningIntensity(system_load)
    \/ \E threat_score \in {3500, 9000}, base_nonce \in UtilizationNonces, token \in Tokens :
          MineWithUtilizationAwarenessBegin(threat_score, base_nonce, token)
    \/ MineWithUtilizationAwarenessMine
    \/ SearchStep
    \/ Tick
    \/ MineWithUtilizationAwarenessReturn

\* one request mined while the metrics thread updates the intensity
SpecIntensity == InitMining /\ [][IntensityNext]_vars

\* ----------------------------- proxy.py the metrics thread on its own
\* the system loads update_mining_intensity comes to: an idle system, the
\* strategy thresholds, a full load, and a CPU beyond max_cpu_usage
SystemLoads == {0, (3 * Unit) \div 10, (6 * Unit) \div 10, Unit, 2 * Unit}

AdaptiveNext == \E system_load \in SystemLoads : UpdateMiningIntensity(system_load)

SpecAdaptive == InitMining /\ [][AdaptiveNext]_vars

\* ------------------------------------ HSM.py mine_block run to its end
\* the difficulties asked of mine_block: one that a digest can meet, and one
\* of more zeros than a digest has digits
ProofDifficulties == {1, HexDigits + 1}

ProofNext ==
    \/ \E r \in ReportInputs : AddNwiReport(r)
    \/ MineBlockEmpty(1)
    \/ \E d \in ProofDifficulties : MineBlockBegin(1, d)
    \/ MineBlockTry(1)
    \/ MineBlockAdd(1)

\* mine_block runs whenever it can: its thread is scheduled
SpecProof == InitHSM /\ [][ProofNext]_vars

\* ================================================================ claims
\* the block-hash function of the engine that backs the ledger
CalculateBlockHash(b) ==
    IF impl = "HSM" THEN _calculate_block_hash(b) ELSE engine_calculate_block_hash(b)

\* --- C1 ---------------------------------------------------------------
\* C1: the block stored at position i has index i, and every step leaves the
\* blocks already stored as they are: the chain only grows at its tail.
IndexContiguous == \A i \in 1..Len(chain) : chain[i].index = i - 1
GrowsAtTail == Len(chain') >= Len(chain) /\ SubSeq(chain', 1, Len(chain)) = chain
C1_AppendOnly == []IndexContiguous /\ [][GrowsAtTail]_vars
C1_Witness ==
    /\ Len(chain) = MaxChain
    /\ ret[1].op = "mine_block" /\ ret[1].value # NoBlock

\* --- C2 ---------------------------------------------------------------
\* C2: every block after the first names the block_hash of the block before
\* it as its previous_hash, and block 0 names 64 zero characters.
C2_HashLinked ==
    /\ chain[1].previous_hash = Zeros(64)
    /\ \A i \in 2..Len(chain) : chain[i].previous_hash = chain[i - 1].block_hash
C2_Witness ==
    /\ Len(chain) = MaxChain
    /\ ret[1].op = "_add_block"

\* --- C3 ---------------------------------------------------------------
\* C3: for every block built by _create_block and every block stored in the
\* chain, recomputing _calculate_block_hash on it returns its block_hash.
C3_BlockHashRecomputes ==
    /\ \A i \in 1..Len(chain) : CalculateBlockHash(chain[i]) = chain[i].block_hash
    /\ \A w \in Writers : cand[w] # NoBlock => CalculateBlockHash(cand[w]) = cand[w].block_hash

\* --- C4 ---------------------------------------------------------------
\* C4: once the transactions of the stored block k were changed, verify
\* reports tamper_detected, block k invalid, and every other block valid.
C4_TamperDetected ==
    (tampered # -1 /\ report # NoReport) =>
        /\ report.tamper_detected
        /\ \A i \in 1..Len(report.details) :
              /\ report.details[i].block_index = tampered => ~report.details[i].valid
              /\ report.details[i].block_index # tampered => report.details[i].valid
        /\ \E i \in 1..Len(report.details) : report.details[i].block_index = tampered
C4_Witness ==
    /\ tampered = 1
    /\ report # NoReport
    /\ Len(chain) = MaxChain

\* --- C5 ---------------------------------------------------------------
\* C5: on a chain that was only built by add_nwi_report and mine_block (and
\* _create_block then _add_block), verify reports every block valid and no
\* tampering.
C5_UntouchedChainVerifies ==
    report # NoReport =>
        /\ report.total_blocks = Len(chain)
        /\ report.valid_blocks = report.total_blocks
        /\ report.invalid_blocks = 0
        /\ ~report.tamper_detected
C5_Witness ==
    /\ report # NoReport
    /\ Len(chain) = MaxChain
    /\ \E i \in 1..Len(chain) : Len(chain[i].transactions) = MaxPending

\* --- C6 ---------------------------------------------------------------
\* C6: verify reports on every block, in chain order, also past a failure:
\* one details entry per block, valid + invalid = total, and tamper_detected
\* exactly when a block is invalid.
C6_VerifyReportsWholeChain ==
    report # NoReport =>
        /\ report.total_blocks = Len(chain)
        /\ Len(report.details) = Len(chain)
        /\ \A i \in 1..Len(chain) :
              /\ report.details[i].block_index = chain[i].index
              /\ report.details[i].block_hash = chain[i].block_hash
              /\ report.details[i].valid =
                    _verify_block(chain[i], IF i > 1 THEN chain[i - 1] ELSE NoBlock)
        /\ report.valid_blocks = Cardinality({i \in 1..Len(chain) : report.details[i].valid})
        /\ report.valid_blocks + report.invalid_blocks = report.total_blocks
        /\ report.tamper_detected <=> report.invalid_blocks > 0
C6_Witness ==
    /\ report # NoReport
    /\ Len(chain) = MaxChain
    /\ ~report.details[1].valid
    /\ report.details[2].valid

\* --- C7 ---------------------------------------------------------------
\* C7: with two writers, no interleaving leaves two blocks with the same
\* index or a block whose previous_hash is not the block_hash before it.
C7_SerializedAppends ==
    /\ \A i, j \in 1..Len(chain) : i # j => chain[i].index # chain[j].index
    /\ \A i \in 2..Len(chain) : chain[i].previous_hash = chain[i - 1].block_hash

\* --- C8 ---------------------------------------------------------------
\* C8: mine_with_hsm_targeting returns, of the searches that succeeded, the
\* result with the highest ratio, the first found among equals; it returns
\* None only when no search succeeded.
Succeeded == {k \in 1..Len(hist.found) : hist.found[k] # NoResult}
BestFound ==
    CHOOSE k \in Succeeded :
        \A j \in Succeeded :
            \/ hist.found[j].threat_score < hist.found[k].threat_score
            \/ hist.found[j].threat_score = hist.found[k].threat_score /\ k <= j
C8_HighestRatioFirstFound ==
    call.pc = "done" =>
        IF Succeeded = {} THEN call.result = NoResult
        ELSE call.result = hist.found[BestFound]

\* --- C9 ---------------------------------------------------------------
\* C9: the candidates are tried one by one upwards from startNonce, and a
\* search that succeeds returns the smallest nonce of [startNonce,
\* startNonce + rangeSize) whose digest starts with difficulty zeros.
SearchDifficulty ==
    IF search.kind = "hsm" THEN miner.difficulty ELSE proxy.mining_difficulty
HasLeadingZeros(digest, d) == Len(digest) >= d /\ SubSeq(digest, 1, d) = Zeros(d)
C9_SmallestNonceInRange ==
    search.pc \in {"loop", "done"} =>
        /\ \A k \in 1..Len(hist.tried) : hist.tried[k] = search.start_nonce + k - 1
        /\ (search.pc = "done" /\ search.result # NoResult) =>
              LET n == search.result.nonce
              IN  /\ search.start_nonce <= n
                  /\ n < search.end_nonce
                  /\ search.result.block_hash =
                        _calculate_candidate_hash(n, search.nonce_metadata)
                  /\ HasLeadingZeros(search.result.block_hash, SearchDifficulty)
                  /\ \A m \in search.start_nonce..(n - 1) :
                        ~HasLeadingZeros(
                            _calculate_candidate_hash(m, search.nonce_metadata),
                            SearchDifficulty)
                  /\ Len(hist.tried) = n - search.start_nonce + 1
C9_Witness ==
    /\ search.pc = "done"
    /\ search.result # NoResult
    /\ search.result.nonce > search.start_nonce
    /\ search.result.nonce < search.end_nonce - 1

\* --- C10 --------------------------------------------------------------
\* C10: a search that has started returns; it returns None when its range
\* is used up or when a timeout check saw the timeout; once a check saw the
\* timeout no candidate is hashed; no candidate is hashed twice, and a search
\* that has returned does nothing more.
ReturnsNoneWhenDone ==
    (search.pc = "done" /\ search.result = NoResult) =>
        \/ search.nonce >= search.end_nonce
        \/ hist.observed
NeverTwice == \A j, k \in 1..Len(hist.tried) : j # k => hist.tried[j] # hist.tried[k]
NothingAfterTimeout == hist'.observed => hist'.tried = hist.tried
NothingAfterReturn == (search.pc = "done" /\ search'.pc = "done") => search' = search
C10_SearchTerminates ==
    /\ [](ReturnsNoneWhenDone /\ NeverTwice)
    /\ [][NothingAfterTimeout /\ NothingAfterReturn]_vars
    /\ (search.pc = "loop" ~> search.pc = "done")
C10_Witness ==
    /\ search.pc = "done"
    /\ search.result = NoResult
    /\ hist.observed
    /\ Len(hist.tried) >= 2
    /\ search.nonce < search.end_nonce

\* --- C11 --------------------------------------------------------------
\* C11: the genesis block has index 0, no transactions, previous_hash and
\* merkle_root of 64 zeros, nonce 0, and the block_hash that the block-hash
\* function gives for it.
C11_GenesisBlock ==
    LET genesis == chain[1]
    IN  /\ genesis.index = 0
        /\ genesis.transactions = <<>>
        /\ genesis.previous_hash = Zeros(64)
        /\ genesis.nonce = 0
        /\ "merkle_root" \in DOMAIN genesis
        /\ genesis.merkle_root = Zeros(64)
        /\ genesis.block_hash = CalculateBlockHash(genesis)

\* --- C12 --------------------------------------------------------------
\* C12: after any constructions and mine_block calls over one chain file the
\* chain is not empty, its block 0 is the genesis block and no other block is
\* one.
IsGenesis(b) == b.previous_hash = Zeros(64) /\ b.transactions = <<>> /\ b.nonce = 0
C12_OneGenesis ==
    impl = "HSM" =>
        /\ Len(chain) >= 1
        /\ IsGenesis(chain[1]) /\ chain[1].index = 0
        /\ \A i \in 2..Len(chain) : ~IsGenesis(chain[i])
C12_Witness ==
    /\ impl = "HSM"
    /\ Len(chain) = MaxChain
    /\ ret[1].op = "__init__"

\* --- C13 --------------------------------------------------------------
\* the lists of transactions the engine holds: the pending ones and those of
\* the candidate and stored blocks
HeldLists ==
    {pending} \cup {chain[i].transactions : i \in 1..Len(chain)}
        \cup {cand[w].transactions : w \in {v \in Writers : cand[v] # NoBlock}}
HeldBlocks ==
    {chain[i] : i \in 1..Len(chain)} \cup {cand[w] : w \in {v \in Writers : cand[v] # NoBlock}}

\* C13: the merkle root of no transactions is 64 zeros, and the merkle root of
\* one transaction is that transaction's hash, not hashed again.
C13_MerkleRootOfNoneAndOne ==
    /\ \A txs \in HeldLists :
          /\ Len(txs) = 0 => _calculate_merkle_root(txs) = Zeros(64)
          /\ Len(txs) = 1 => _calculate_merkle_root(txs) = _hash_transaction(txs[1])
    /\ \A b \in HeldBlocks :
          /\ Len(b.transactions) = 0 => b.merkle_root = Zeros(64)
          /\ Len(b.transactions) = 1 => b.merkle_root = _hash_transaction(b.transactions[1])
C13_Witness ==
    /\ Len(chain) = 2
    /\ Len(chain[1].transactions) = 0
    /\ Len(chain[2].transactions) = 1

\* --- C14 --------------------------------------------------------------
\* the list with the transactions at i and j exchanged
Swapped(txs, i, j) ==
    [k \in 1..Len(txs) |-> IF k = i THEN txs[j] ELSE IF k = j THEN txs[i] ELSE txs[k]]

\* C14: for a list of even length, exchanging two transactions of different
\* content changes the merkle root.
C14_MerkleRootOrderSensitive ==
    \A txs \in HeldLists :
        (Len(txs) > 0 /\ Len(txs) % 2 = 0) =>
            \A i, j \in 1..Len(txs) :
                txs[i] # txs[j] =>
                    _calculate_merkle_root(Swapped(txs, i, j)) # _calculate_merkle_root(txs)
C14_Witness ==
    /\ Len(chain) = 2
    /\ Len(chain[2].transactions) = MaxTxs - (MaxTxs % 2)
    /\ \E i, j \in 1..Len(chain[2].transactions) :
          chain[2].transactions[i] # chain[2].transactions[j]

\* --- C15 --------------------------------------------------------------
\* the calls that score: score of HSM.py, update of TM.py
Scores(c) == c.op \in {"score", "update"}
RatioOf(c) == IF c.op = "score" THEN c.value.ratio ELSE c.value.result.ratio
PhaseOf(c) == IF c.op = "score" THEN c.value.phase ELSE c.value.result.phase
ComponentsOf(c) ==
    IF c.op = "score" THEN <<c.value.C, c.value.D, c.value.M, c.value.A>>
    ELSE <<c.value.courage, c.value.dexterity, c.value.clause_matter, c.value.audacity>>
HonorOf(engine) == engine.made.value.honor

\* C15: two scoring calls on one engine with the same inputs come to the same
\* ratio and phase, whatever calls were made before or between them.
C15_ScoreIsPure ==
    \A i, j \in 1..Len(calls) :
        (Scores(calls[i]) /\ Scores(calls[j]) /\ calls[i].args = calls[j].args) =>
            /\ calls[i].raised = calls[j].raised
            /\ calls[i].raised = "" =>
                  /\ RatioOf(calls[i]) = RatioOf(calls[j])
                  /\ PhaseOf(calls[i]) = PhaseOf(calls[j])

\* --- C16 --------------------------------------------------------------
\* a float within [0, 1]
InUnitInterval(v) == v.type = "float" /\ 0 <= v.value /\ v.value <= Unit

\* C16: with the four inputs in [0, 1] and honor in (0, 1], the ratio is
\* sum / (4 * honor) rounded to four decimals, and 0 <= ratio <= 1 / honor.
C16_RatioIsRoundedQuotient ==
    \A i \in 1..Len(calls) :
        LET c == calls[i]
            honor == HonorOf(tm)
        IN  (Scores(c) /\ c.raised = "" /\ (\A k \in 1..4 : InUnitInterval(c.args[k]))
                 /\ 0 < honor /\ honor <= Unit) =>
                /\ RatioOf(c) = RoundDiv((c.args[1].value + c.args[2].value
                                             + c.args[3].value + c.args[4].value) * Unit,
                                         4 * honor)
                /\ 0 <= RatioOf(c)
                /\ RatioOf(c) * honor <= Unit * Unit

\* --- C17 --------------------------------------------------------------
\* the five phases in their order, and the place of a phase in it
Phases ==
    <<"Initiation (Courage)", "Adaptation (Dexterity)", "Verification (Clause Matter)",
      "Action (Audacity)", "Equilibrium (Honor)">>
PhaseOrder(phase) == CHOOSE k \in 1..Len(Phases) : Phases[k] = phase

NonNumeric(v) ==
    \/ v.type \in {"nan", "inf", "NoneType"}
    \/ v.type = "str" /\ (float(v).raised # "" \/ ~isfinite(float(v).value))

\* C18: a scoring call never raises; every component of its result is within
\* [0, 1], and the component of an input that is not a number is 0.0.
C18_InputsClamped ==
    \A i \in 1..Len(calls) :
        LET c == calls[i]
        IN  Scores(c) =>
                /\ c.raised = ""
                /\ \A k \in 1..4 :
                      /\ 0 <= ComponentsOf(c)[k] /\ ComponentsOf(c)[k] <= Unit
                      /\ NonNumeric(c.args[k]) => ComponentsOf(c)[k] = 0

\* --- C19 --------------------------------------------------------------
\* C19: an engine exists only with 0 < honor <= 1, the construction with any
\* other honor having raised, so that no call computes a ratio with honor <= 0.
C19_HonorValidated ==
    calls # <<>> => (0 < HonorOf(tm) /\ HonorOf(tm) <= Unit)

\* --- C20 --------------------------------------------------------------
\* the calls of _calculate_nonce_range
Ranges == {i \in 1..Len(calls) : calls[i].op = "_calculate_nonce_range"}
RangeSize(c) == c.value[2] - c.value[1]

\* C20: the range is 1,000,000 times 2.0, 1.5, 1.2, 0.8, 0.5 for the five
\* phases in their order: positive, and smaller for every later phase.
C20_RangeByPhase ==
    /\ \A i \in Ranges :
          LET c == calls[i]
              tenths == <<20, 15, 12, 8, 5>>
          IN  /\ 10 * RangeSize(c) = 1000000 * tenths[PhaseOrder(c.args[1].phase)]
              /\ RangeSize(c) > 0
    /\ \A i, j \in Ranges :
          PhaseOrder(calls[i].args[1].phase) < PhaseOrder(calls[j].args[1].phase) =>
              RangeSize(calls[i]) > RangeSize(calls[j])
C20_Witness ==
    \E i, j \in Ranges :
        /\ calls[i].args[1].phase = "Initiation (Courage)"
        /\ calls[j].args[1].phase = "Equilibrium (Honor)"

\* --- C21 --------------------------------------------------------------
\* the calls of generate_targeted_nonce
Targets == {i \in 1..Len(calls) : calls[i].op = "generate_targeted_nonce"}
\* (C XOR D) + (M OR A) over the components times 1000
MixedComponents(trajectory) ==
    BitXor(trajectory.C \div 10, trajectory.D \div 10)
        + BitOr(trajectory.M \div 10, trajectory.A \div 10)

\* C21 as stated: the start nonce is ((base XOR latInt) + lonInt) modulo
\* 1,000,000 for a report with coordinates, base modulo 1,000,000 for one
\* without, and within 0..999,999.
C21_StartNonceAsStated ==
    \A i \in Targets :
        LET threat_data == calls[i].args[1]
            base == MixedComponents(calls[i].value.trajectory_score)
            startNonce == calls[i].value.base_nonce
        IN  /\ 0 <= startNonce /\ startNonce <= 999999
            /\ startNonce =
                  IF "lat" \in DOMAIN threat_data /\ "lon" \in DOMAIN threat_data
                  THEN (BitXor(base, Abs(threat_data.lat)) + Abs(threat_data.lon)) % 1000000
                  ELSE base % 1000000

\* C21, amended: with coordinates the start nonce is
\* ((base XOR latInt) + (base OR lonInt)) modulo 1,000,000.
C21_StartNonce ==
    \A i \in Targets :
        LET threat_data == calls[i].args[1]
            base == MixedComponents(calls[i].value.trajectory_score)
            startNonce == calls[i].value.base_nonce
        IN  /\ 0 <= startNonce /\ startNonce <= 999999
            /\ startNonce =
                  IF "lat" \in DOMAIN threat_data /\ "lon" \in DOMAIN threat_data
                  THEN (BitXor(base, Abs(threat_data.lat))
                            + BitOr(base, Abs(threat_data.lon))) % 1000000
                  ELSE base % 1000000
C21_Witness ==
    \E i, j \in Targets :
        /\ "lat" \in DOMAIN calls[i].args[1]
        /\ calls[i].value.trajectory_score.ratio = 7375
        /\ "lat" \notin DOMAIN calls[j].args[1]

\* --- C22 --------------------------------------------------------------
\* the reward as the claim gives it: the multipliers in tenths, the first
\* tier that the ratio reaches
StatedScoreMultiplier(ratio) ==
    CASE ratio >= 9000 -> 25
      [] ratio < 9000 /\ ratio >= 8000 -> 20
      [] ratio < 8000 /\ ratio >= 7000 -> 15
      [] ratio < 7000 /\ ratio >= 6000 -> 12
      [] OTHER -> 10
StatedLevelMultiplier(level) ==
    CASE level = "CRITICAL" -> 30 [] level = "HIGH" -> 20 [] level = "MEDIUM" -> 15
      [] OTHER -> 10
StatedReward(baseReward, ratio, level) ==
    (baseReward \div 100) * StatedScoreMultiplier(ratio) * StatedLevelMultiplier(level)
RewardCalls == {i \in 1..Len(calls) : calls[i].op = "calculate_mining_reward"}

\* C22: a reward computed is baseReward * scoreMultiplier * levelMultiplier of
\* the claim's two tables, and the amount credited for a mined block is that
\* reward, for the block's ratio and some threat level.
C22_RewardCredited ==
    /\ \A i \in RewardCalls :
          calls[i].value = StatedReward(miner.base_reward, calls[i].args[1], calls[i].args[2])
    /\ (call.pc = "done" /\ call.result # NoResult /\ miner.mined_blocks = 1) =>
          \E level \in ThreatLevels :
              miner.total_rewards
                  = StatedReward(miner.base_reward, call.result.threat_score, level)

\* --- C23 --------------------------------------------------------------
\* the thresholds of the tiers
TierThresholds == {6000, 7000, 8000, 9000}

\* C23: with a base reward that is not negative and the same threat level, a
\* larger ratio never has a smaller reward, and with a positive base reward
\* the reward is larger on and above a tier's threshold than below it.
C23_RewardMonotone ==
    \A i, j \in RewardCalls :
        (miner.base_reward >= 0 /\ calls[i].args[2] = calls[j].args[2]
             /\ calls[i].args[1] <= calls[j].args[1]) =>
            /\ calls[i].value <= calls[j].value
            /\ (miner.base_reward > 0
                  /\ \E t \in TierThresholds : calls[i].args[1] < t /\ t <= calls[j].args[1])
                   => calls[i].value < calls[j].value
C23_Witness ==
    /\ miner.base_reward > 0
    /\ \E i, j \in RewardCalls :
          /\ calls[i].args[2] = calls[j].args[2]
          /\ calls[i].args[1] = 5900 /\ calls[j].args[1] = 6000
          /\ 10 * calls[i].value = 10 * calls[j].value - 2 * calls[i].value

\* --- C24 --------------------------------------------------------------
\* C24: a negative base reward is never used: no reward computed is negative
\* and the miner's total_rewards, which starts at 0, is never below it.
C24_NoNegativeReward ==
    /\ \A i \in RewardCalls : calls[i].value >= 0
    /\ miner.total_rewards >= 0

\* --- C25 --------------------------------------------------------------
\* C25: no search reports a block under a difficulty of zero or less: not
\* the miners' searches, and not mine_block, whose candidate is accepted when
\* it goes on to _add_block.
C25_NoBlockWithoutDifficulty ==
    /\ (search.pc = "done" /\ search.result # NoResult) => SearchDifficulty >= 1
    /\ \A w \in Writers : pc[w] = "add" => diff[w] >= 1

\* --- C26 --------------------------------------------------------------
\* C26: a failure raised in one cycle of the continuous mining loop (a
\* failure of the ledger append included) does not end the loop: a loop in
\* which a cycle has failed still stands in a cycle or in its wait, or has
\* returned because stop_mining was called
C26_LoopSurvivesFailure ==
    loop.raised # "" =>
        \/ loop.pc \in {"head", "sleep"}
        \/ loop.pc = "returned" /\ ~loop.mining_active

\* --- C27 --------------------------------------------------------------
\* a score component that is not a number of [0, 1], a coordinate that is
\* not a number of its range
BadNumber(v, lo, hi) ==
    IF v.type = "str"
    THEN float_of_str(v.text).raised # "" \/ ~Between(lo, float_of_str(v.text).value, hi)
    ELSE ~Between(lo, v, hi)
FailsValidation(r) ==
    \/ \E k \in 1..Len(score_fields) :
          score_fields[k] \in DOMAIN r /\ BadNumber(r[score_fields[k]], 0, Unit)
    \/ "lat" \in DOMAIN r /\ r.lat # PyNone /\ BadNumber(r.lat, -90 * Unit, 90 * Unit)
    \/ "lon" \in DOMAIN r /\ r.lon # PyNone /\ BadNumber(r.lon, -180 * Unit, 180 * Unit)
\* what the ledger directory holds of the report of some id
TracesOf(id) ==
    {k \in 1..Len(mgr.ledger) :
        "id" \in DOMAIN mgr.ledger[k].record /\ mgr.ledger[k].record.id = id}
    \cup {-k : k \in {j \in 1..Len(mgr.incident_files) :
                          mgr.incident_files[j].record_ref = id}}
    \cup {100 + k : k \in {j \in 1..Len(mgr.incidents_file) :
                               mgr.incidents_file[j].id = id}}
LedgerEntriesOf(id) ==
    {k \in 1..Len(mgr.ledger) :
        "id" \in DOMAIN mgr.ledger[k].record /\ mgr.ledger[k].record.id = id}
IncidentsOf(id) ==
    {k \in 1..Len(mgr.incident_files) : mgr.incident_files[k].record_ref = id}
AlertsOf(id) ==
    {k \in 1..Len(mgr.posted) :
        \E j \in IncidentsOf(id) :
            mgr.posted[k].incident_id = mgr.incident_files[j].incident_id}
\* C28: a report that ingest_report has taken has its record in the ledger;
\* it has an incident (and, with a webhook, an alert) exactly when its ratio
\* exceeds the threshold, and neither when its ratio does not exceed it
C28_IncidentWhenExceeds ==
    \A k \in 1..mgr.i :
        mgr.printed[k] = "Processed report" =>
            LET id == mgr.reports[k].id
                ratio == mgr.ledger[CHOOSE j \in LedgerEntriesOf(id) : TRUE].record.score.ratio
            IN  /\ Cardinality(LedgerEntriesOf(id)) = 1
                /\ IF ratio > mgr.threshold
                   THEN /\ Cardinality(IncidentsOf(id)) = 1
                        /\ mgr.webhook => Cardinality(AlertsOf(id)) = 1
                   ELSE /\ IncidentsOf(id) = {}
                        /\ AlertsOf(id) = {}

\* --- C29 --------------------------------------------------------------
\* C29: at most one thread at a time is inside the file-append section of
\* append_ledger
C29_OneThreadAppends ==
    Cardinality({t \in Writers : app.pc[t] \in {"open", "written"}}) <= 1

\* --- C30 --------------------------------------------------------------
\* the leading zeros a search enforces on its block_hash
EnforcedDifficulty(s) == Len(s.target_prefix)
\* C30: the difficulty recorded in the nonce metadata of a mining result is
\* the number of leading zeros that its search enforced on the block_hash,
\* whatever update_mining_intensity did meanwhile
C30_RecordedDifficultyEnforced ==
    (search.pc = "done" /\ search.kind = "proxy" /\ search.result # NoResult) =>
        search.result.nonce_metadata.mining_context.difficulty = EnforcedDifficulty(search)

\* --- C31 --------------------------------------------------------------
\* the targets generated of the report of the scenario
ScenarioTargets ==
    {i \in Targets :
        LET threat_data == calls[i].args[1]
        IN  /\ threat_data.courage = 8000 /\ threat_data.dexterity = 7000
            /\ threat_data.clause_matter = 8500 /\ threat_data.audacity = 6000}
\* C31: the report {courage 0.8, dexterity 0.7, clause matter 0.85, audacity
\* 0.6} with honor 1.0 scores ratio 0.7375 and phase "Verification (Clause
\* Matter)", and the target derived from it has a range of 1,200,000 nonces
C31_Scenario ==
    \A i \in ScenarioTargets :
        LET target == calls[i].value
        IN  /\ target.trajectory_score.honor = Unit
            /\ target.trajectory_score.ratio = 7375
            /\ target.trajectory_score.phase = "Verification (Clause Matter)"
            /\ target.nonce_range[2] - target.nonce_range[1] = 1200000
C31_Witness == ScenarioTargets # {}

\* --- C32 --------------------------------------------------------------
\* C32: the search of mine_block is bounded: when no candidate can meet the
\* difficulty, mine_block has returned before it comes to its MaxNonce-th
\* candidate nonce
C32_SearchBounded ==
    (pc[1] = "mine" /\ diff[1] > HexDigits) => nonce[1] < MaxNonce

\* --- C33 --------------------------------------------------------------
\* the hash of a pair of hashes
PairHash(h1, h2) == sha256(Combined(h1, h2))
\* the list with its last transaction once more at the end
LastRepeated(txs) == Append(txs, txs[Len(txs)])

\* C33: the merkle root pairs adjacent hashes level by level, and at an odd
\* level the last hash is paired with itself: the root of [a, b, c] is
\* H(H(a+b) + H(c+c)), that of four transactions is H(H(a+b) + H(c+d)), and a
\* list of three or more transactions of odd length has the root of the list
\* with its last transaction repeated.
C33_OddLevelPairsLastWithItself ==
    /\ \A txs \in HeldLists :
          /\ Len(txs) = 3 =>
                _calculate_merkle_root(txs) =
                    PairHash(PairHash(_hash_transaction(txs[1]), _hash_transaction(txs[2])),
                             PairHash(_hash_transaction(txs[3]), _hash_transaction(txs[3])))
          /\ Len(txs) = 4 =>
                _calculate_merkle_root(txs) =
                    PairHash(PairHash(_hash_transaction(txs[1]), _hash_transaction(txs[2])),
                             PairHash(_hash_transaction(txs[3]), _hash_transaction(txs[4])))
          /\ (Len(txs) >= 3 /\ Len(txs) % 2 = 1) =>
                /\ LastRepeated(txs) # txs
                /\ _calculate_merkle_root(LastRepeated(txs)) = _calculate_merkle_root(txs)
    /\ \A b \in HeldBlocks :
          (Len(b.transactions) >= 3 /\ Len(b.transactions) % 2 = 1) =>
              b.merkle_root = _calculate_merkle_root(LastRepeated(b.transactions))
C33_Witness ==
    /\ Len(chain) = 2
    /\ Len(chain[2].transactions) = 3
    /\ chain[2].transactions[3] \notin {chain[2].transactions[1], chain[2].transactions[2]}

\* --- C34 --------------------------------------------------------------
\* block k is stored with the merkle_root and block_hash of its own content
SelfConsistent(block) ==
    /\ block.block_hash = _calculate_block_hash(block)
    /\ block.merkle_root = _calculate_merkle_root(block.transactions)
\* the chain file has just been rewritten with another content in block k,
\* block k is not the last one and its hash fields fit its new content
ResealedBelowTop(k) ==
    /\ tampered = -1
    /\ tampered' = k - 1
    /\ k < Len(chain')
    /\ chain'[k].transactions # chain[k].transactions
    /\ SelfConsistent(chain'[k])
\* what verify_chain_integrity says of the block at position i
ValidAt(rep, i) == rep.details[i].valid

\* C34: when the content of block k, not the last block, is changed and its
\* merkle_root and block_hash are computed again over the new content,
\* verify_chain_integrity reports tamper_detected: block k+1 is reported
\* invalid, its previous_hash no longer being the block_hash of block k, and
\* every other block is reported valid.
C34_ResealedTamperFlagsNextBlock ==
    [][\A k \in 1..MaxChain :
          ResealedBelowTop(k) =>
              /\ chain'[k + 1].previous_hash # chain'[k].block_hash
              /\ verify_chain_integrity(chain').tamper_detected
              /\ verify_chain_integrity(chain').invalid_blocks = 1
              /\ \A i \in 1..Len(chain') :
                     ValidAt(verify_chain_integrity(chain'), i) <=> (i # k + 1)]_vars
C34_Witness ==
    /\ tampered >= 0
    /\ tampered + 2 <= Len(chain)
    /\ SelfConsistent(chain[tampered + 1])
    /\ report # NoReport
    /\ report.tamper_detected
    /\ ~report.details[tampered + 2].valid

\* --- C35 --------------------------------------------------------------
\* the transactions of the blocks of the chain
ChainTransactions ==
    UNION {{chain[i].transactions[j] : j \in 1..Len(chain[i].transactions)} :
              i \in 1..Len(chain)}
PoolTransactions ==
    {loop.transaction_pool[j] : j \in 1..Len(loop.transaction_pool)}

\* C35: no transaction is lost in continuous mining: once a cycle of the
\* loop is over, every transaction that was put into the pool, before the
\* cycle or while it ran, is in a block of the chain or still in the pool.
C35_NoTransactionLost ==
    loop.pc # "mined" => loop.put \subseteq (ChainTransactions \cup PoolTransactions)

\* --- C36 --------------------------------------------------------------
\* mine_block is called with nothing pending and returns
ReturnsWithNothingPending == pc[1] = "idle" /\ pending = <<>> /\ ret'[1] # ret[1]
\* mine_block has found its block and returns
ReturnsWithBlock == pc[1] = "add" /\ pc'[1] = "idle"

\* C36: mine_block with nothing pending returns None and leaves the chain
\* and the pending list as they were; a mine_block that finds a block leaves
\* the chain one block longer, the new block holding exactly the transactions
\* that were pending at the call (none is added or removed while it
\* searches), returns that block and leaves the pending list empty.
C36_MineBlockFrame ==
    [][/\ ReturnsWithNothingPending =>
             /\ ret'[1] = [op |-> "mine_block", value |-> NoBlock]
             /\ chain' = chain
             /\ pending' = pending
       /\ (pc[1] # "idle" /\ ~ReturnsWithBlock) => (pending' = pending /\ chain' = chain)
       /\ ReturnsWithBlock =>
             /\ Len(chain') = Len(chain) + 1
             /\ SubSeq(chain', 1, Len(chain)) = chain
             /\ chain'[Len(chain')].transactions = pending
             /\ ret'[1] = [op |-> "mine_block", value |-> chain'[Len(chain')]]
             /\ pending' = <<>>]_vars
C36_Witness ==
    /\ ret[1].op = "mine_block"
    /\ ret[1].value # NoBlock
    /\ chain[Len(chain)] = ret[1].value
    /\ Len(ret[1].value.transactions) = MaxPending
    /\ pending = <<>>

\* --- C37 --------------------------------------------------------------
\* the components of a threat report as the nonce metadata records them
ComponentsOfReport(threat_report) ==
    [courage |-> Get(threat_report, "courage"),
     dexterity |-> Get(threat_report, "dexterity"),
     clause_matter |-> Get(threat_report, "clause_matter"),
     audacity |-> Get(threat_report, "audacity")]
\* the loop of mine_with_hsm_targeting starts the search of a report
StartsSearch == call.pc = "loop" /\ call'.pc = "search"
\* mine_with_hsm_targeting is called with no reports
CalledWithNoReports ==
    call.pc \in {"idle", "done"} /\ call' # call /\ call'.threat_reports = <<>>

ReportReturns ==
    /\ tm.which = "TM"
    /\ 0 < tm.made.value.honor /\ tm.made.value.honor <= Unit
    /\ Len(calls') = Len(calls) + 1
    /\ calls'[Len(calls')].op = "report"
    /\ calls'[Len(calls')].raised = ""

\* C38: report() of TM.py only reads the state: the ratio and phase a
\* compute_trajectory made after it returns are those it would have returned
\* before it, and the recorded history is as it was.
C38_ReportOnlyReads ==
    [][ReportReturns =>
          /\ tm_compute_trajectory(tm'.made.value).value =
                 tm_compute_trajectory(tm.made.value).value
          /\ tm'.made.value.history = tm.made.value.history]_vars

TargetingReturns == call.pc # "done" /\ call'.pc = "done"

\* C40: a call of mine_with_hsm_targeting that returns a block adds 1 to
\* mined_blocks and one and the same reward, that of the block's threat
\* score, to total_rewards and to threat_based_rewards; a call that returns
\* None leaves the three as they were, as does every step before the
\* return; so total_rewards = threat_based_rewards before and after every step.
C40_CountersMoveTogether ==
    [][/\ miner.total_rewards = miner.threat_based_rewards
       /\ miner'.total_rewards = miner'.threat_based_rewards
       /\ (TargetingReturns /\ call'.result # NoResult) =>
             /\ miner'.mined_blocks = miner.mined_blocks + 1
             /\ miner'.total_rewards =
                    miner.total_rewards
                        + calculate_hsm_reward(miner, call'.result.threat_score)
             /\ miner'.threat_based_rewards - miner.threat_based_rewards =
                    miner'.total_rewards - miner.total_rewards
       /\ (TargetingReturns /\ call'.result = NoResult) => miner' = miner
       /\ ~TargetingReturns => miner' = miner]_vars
C40_Witness ==
    /\ call.pc = "done"
    /\ call.result # NoResult
    /\ miner.mined_blocks = MaxMined
    /\ miner.total_rewards > 0
    /\ miner.threat_based_rewards = calculate_hsm_reward(miner, call.result.threat_score)

====
